---- MODULE Spec2Model ----
(***************************************************************************)
(* The agent runtime of the Ollama local-AI sandbox: the monologue loop of *)
(* agent/agent.py (Agent.monologue), the tool executor                     *)
(* (_execute_tool_calls, _run_tool_call, _execute_tool_with_instance), the *)
(* per-session tool cache and the telemetry sink it writes to.             *)
(*                                                                         *)
(* Text is kept symbolic: a message is a record that names its shape       *)
(* ("[Tool 'n' timed out after 0.0s]" is [kind |-> "timed_out", name |-> n,*)
(* t |-> 0]).  Times are integer milliseconds.                             *)
(***************************************************************************)
EXTENDS Integers, Sequences, FiniteSets, TLC

VARIABLES
    config,         \* AgentConfig: the fields the loop and the executor read
    pc,             \* position of the caller: the monologue or a direct executor call
    rounds,         \* number of batches handed to the executor so far
    history,        \* Agent.history
    iteration,      \* monologue local: iteration
    no_tool_count,  \* monologue local: no_tool_count
    full_response,  \* monologue local: text streamed so far in this iteration
    tool_calls,     \* the batch handed to _execute_tool_calls
    mode,           \* how the batch runs: "sequential", "parallel" or "none"
    slots,          \* one _run_tool_call activation per call of the batch
    finished,       \* indices of the batch's calls in the order they completed
    results,        \* value returned by _execute_tool_calls
    tool_cache,     \* context.data["tool_cache"]
    last_call,      \* per cache key: the last cacheable call that completed, hit or miss
    telemetry,      \* context.telemetry (Telemetry)
    caller,         \* who awaits the executor: "monologue", "direct" or "none"
    last_tool_name, \* Agent.data["last_tool_name"]
    data_tool_calls,\* context.data["tool_calls"]
    events,         \* hooks dispatched and finalize calls of this monologue, in order
    llm_count,      \* LLM calls made by this monologue
    ret,            \* value returned by monologue
    gate,           \* ParallelGateTool.started / ParallelGateTool.event
    extensions,     \* ExtensionManager.extensions
    dispatch,       \* one activation of ExtensionManager.dispatch
    parse,          \* one activation of OutputParser.extract_tool_calls, and its log
    norm,           \* one payload on its way through _normalize_payload and _validate_tool_call
    router,         \* ModelRouter: its configuration, its model list and one select_model call
    registry,       \* ToolRegistry._tool_classes and the MCPBridge discovery that fills it
    store,          \* context.session_store: the calls made to it and those that raised
    request,        \* monologue locals of one iteration: messages and modified
    contexts,       \* several AgentContexts: data["tool_cache"] of each, and one call
    db,             \* the SQLite file of a SessionStore: its three tables and the clock
    web,            \* one SessionState of the web app and the /chat/send requests for it
    client,         \* one call of OllamaClient.chat: its locals and what it yielded
    agents          \* context.agents: the agents of the hierarchy, each with its history

vars == <<config, pc, rounds, history, iteration, no_tool_count, full_response,
          tool_calls, mode, slots, finished, results, tool_cache, last_call,
          telemetry, caller, last_tool_name, data_tool_calls, events, llm_count, ret, gate,
          extensions, dispatch, parse, norm, router,
          registry, store, request, contexts, db, web, client, agents>>

\* the components the agent loop and the tool executor do not write
Services == <<norm, router, registry, agents>>

\* what a step of the monologue carries along when it is attached
\* the components that stand beside one agent's context
Extras == <<contexts, db, web, client>>

Attached == <<store, request, Extras>>

Components == <<extensions, dispatch, parse, Services>>

----------------------------------------------------------------------------
(* Bounds of the model *)

MaxRounds == 2
MaxIterCap == 2
MaxBatch == 2

----------------------------------------------------------------------------
(* Messages *)

Absent == "<absent>"

\* JSON null as the value of an argument: Python's None
Null == "<null>"

Msg(kind, name, text, t) == [kind |-> kind, name |-> name, text |-> text, t |-> t]

NoMsg == Msg("none", "", "", 0)

\* a Response.message that is not a string (None)
NotAString == Msg("not_a_string", "", "", 0)

\* the message a tool builds from its text argument, which it does not coerce
TextMsg(text) == IF text = Null THEN NotAString ELSE Msg("text", "", text, 0)

Response(message, break_loop) == [message |-> message, break_loop |-> break_loop]

NoResponse == Response(NoMsg, FALSE)

ToolCall(name, action, text) ==
    [name |-> name, args |-> [action |-> action, text |-> text]]

\* f"{timeout:.1f}": the resolved timeout (ms) rounded to tenths of a second
Fmt1(ms) == (ms + 50) \div 100

\* the timeout printed in whole seconds
TimedOutMsg_seconds(name, timeout) == Msg("timed_out", name, "", timeout \div 1000)

\* f"[Tool '{tool_call.name}' timed out after {timeout:.1f}s]"
TimedOutMsg(name, timeout) == Msg("timed_out", name, "", Fmt1(timeout))

ToolErrorMsg(name, e) == Msg("tool_error", name, e, 0)

UnknownToolMsg(name) == Msg("unknown_tool", name, "", 0)

FallbackMsg == Msg("max_iterations_fallback", "", "", 0)

ReminderMsg == Msg("reminder", "", "", 0)

LLMErrorMsg(kind, e) == Msg(kind, "", e, 0)

----------------------------------------------------------------------------
(* Tools: the registry of the agent and the policies of each tool class *)

None == -1

\* ToolRegistry._tool_classes: built-ins, a user subclass and the test's gate tool
Registry == {"response", "task_done", "memory", "plugin", "parallel_gate"}

\* ToolRegistry.get_tool(name) is not None
get_tool(name) == name \in Registry

\* Tool.cacheable
cacheable(name) == name \notin {"task_done", "parallel_gate"}

\* Tool.parallel_safe
parallel_safe(name) == TRUE

\* Tool.timeout_seconds (ms); no tool class of the repository sets one
timeout_seconds(name) == None

\* kwargs.get("action", "search")
MemoryAction(args) == IF args.action = Absent THEN "search" ELSE args.action

\* the class attribute alone, without MemoryTool's override
should_cache_attribute(name, args) == cacheable(name)

\* Tool.should_cache(**args), overridden by MemoryTool
should_cache(name, args) ==
    IF name = "memory"
    THEN MemoryAction(args) \in {"search", "query", "recall"}
    ELSE cacheable(name)

\* Tool.is_parallel_safe(**args), overridden by MemoryTool
is_parallel_safe(name, args) ==
    IF name = "memory" THEN should_cache(name, args) ELSE parallel_safe(name)

\* kwargs.get("text", "")
TextArg(args) == IF args.text = Absent THEN "" ELSE args.text

\* The Response a tool's execute returns when it returns
ExecuteResult(tc) ==
    CASE tc.name \in {"response", "task_done"} ->
            Response(TextMsg(TextArg(tc.args)), TRUE)
      [] tc.name = "memory" ->
            IF MemoryAction(tc.args) = "save"
            THEN Response(Msg("saved", "", TextArg(tc.args), 0), FALSE)
            ELSE Response(Msg("memories", "", TextArg(tc.args), 0), FALSE)
      [] tc.name = "parallel_gate" -> Response(Msg("text", "", "ok", 0), FALSE)
      [] OTHER -> Response(Msg("plugin_out", "", TextArg(tc.args), 0), FALSE)

\* Phases of _run() in which a tool's coroutine may raise
MayRaise(name, phase) ==
    name = "plugin" /\ phase \in {"before", "executing", "after"}

\* Phases of _run() in which a tool's coroutine suspends (and so may time out)
Suspends(name, phase) ==
    \/ name \in {"memory", "parallel_gate"} /\ phase = "executing"
    \/ name = "plugin" /\ phase \in {"before", "executing", "after"}

\* ParallelGateTool.execute waits on the event, set once two calls started
GateOpen(name) == name = "parallel_gate" => gate.event

----------------------------------------------------------------------------
(* Timeout and cache key *)

\* a resolution that asks the tool before the configuration
_get_tool_timeout_tool_first(timeouts, tool_name, tool_timeout, default_timeout) ==
    IF tool_timeout # None THEN tool_timeout
    ELSE IF tool_name \in DOMAIN timeouts THEN timeouts[tool_name]
    ELSE default_timeout

\* Agent._get_tool_timeout
_get_tool_timeout(timeouts, tool_name, tool_timeout, default_timeout) ==
    IF tool_name \in DOMAIN timeouts THEN timeouts[tool_name]
    ELSE IF tool_timeout # None THEN tool_timeout
    ELSE default_timeout

\* json.dumps(args, sort_keys=True): the present keys in sorted order
args_blob(args) ==
    (IF args.action # Absent THEN << <<"action", args.action>> >> ELSE << >>)
    \o (IF args.text # Absent THEN << <<"text", args.text>> >> ELSE << >>)

\* Agent._tool_cache_key
_tool_cache_key(tc) == <<tc.name, args_blob(tc.args)>>

CacheEntry(response) ==
    [message |-> response.message, break_loop |-> response.break_loop]

CachePut(cache, key, entry) ==
    [k \in DOMAIN cache \cup {key} |-> IF k = key THEN entry ELSE cache[k]]

----------------------------------------------------------------------------
(* Telemetry (agent/telemetry.py) *)

\* The error shape _record_tool_metrics looks for: "[error..." or "[tool...error..."
\* (no registered tool name contains "error", so a timeout text has none)
ErrorShaped(message) == message.kind \in {"tool_error", "unknown_tool"}

\* Agent._summarize_text: text.split() needs a string, anything else raises
\* AttributeError
SummarizeRaises(message) == message = NotAString

\* Agent._record_tool_metrics and Telemetry.record_tool_call
_record_tool_metrics(tel, tc, response, cached) ==
    IF ~tel.enabled THEN tel
    ELSE [tel EXCEPT !.tool_calls = Append(@,
            [tool_name |-> tc.name, args |-> tc.args, cached |-> cached,
             result_summary |-> response.message,
             error |-> IF ErrorShaped(response.message)
                       THEN response.message ELSE NoMsg])]

\* Agent._record_llm_metrics and Telemetry.record_llm_call
_record_llm_metrics(tel, completion, error) ==
    IF ~tel.enabled THEN tel
    ELSE [tel EXCEPT !.llm_calls = Append(@,
            [completion_tokens |-> completion, error |-> error])]

\* Agent._record_iteration and Telemetry.record_iteration
_record_iteration(tel, iter, decision) ==
    IF ~tel.enabled THEN tel
    ELSE [tel EXCEPT !.loop_iterations = Append(@,
            [iteration |-> iter, decision |-> decision])]

\* Telemetry.finalize
finalize(tel, final_tool) ==
    IF ~tel.enabled THEN tel ELSE [tel EXCEPT !.final_tool = final_tool]

----------------------------------------------------------------------------
(* The tool executor: Agent._execute_tool_calls and what it awaits *)

\* no exception was raised by the tool's coroutine
NoException == "none"

\* The exceptions a tool's coroutine raises: an ordinary Exception, and the
\* TimeoutError a tool lets out of its own wait_for or socket call
ToolExceptions == {"boom", "TimeoutError"}

NewSlot(tc, pos) ==
    [tc |-> tc, known |-> get_tool(tc.name), pos |-> pos,
     response |-> NoResponse, cached |-> FALSE, can_cache |-> FALSE,
     timeout |-> 0, nb |-> 0, ne |-> 0, na |-> 0, hb |-> 0, ha |-> 0,
     exc |-> NoException, tool_timeout |-> timeout_seconds(tc.name),
     rank |-> 0]

\* the place of the next response among the responses of the batch: the calls
\* get their responses one at a time, in the order the event loop runs them
NextRank(sl) == 1 + Cardinality({j \in 1..Len(sl) : sl[j].rank > 0})

\* a check that skips the calls whose tool is unknown
all_parallel_safe_known(calls) ==
    \A k \in 1..Len(calls) :
        get_tool(calls[k].name) => is_parallel_safe(calls[k].name, calls[k].args)

\* all(tool is not None and tool.is_parallel_safe(**tc.args) ...)
all_parallel_safe(calls) ==
    \A k \in 1..Len(calls) :
        get_tool(calls[k].name) /\ is_parallel_safe(calls[k].name, calls[k].args)

\* a batch that is never handed to gather
RunsSequentially_always(calls) == TRUE

\* len(tool_calls) == 1 or not all_parallel_safe
RunsSequentially(calls) == Len(calls) = 1 \/ ~all_parallel_safe(calls)

\* The slots right after the batch was prepared: the sequential loop awaits
\* the first call, the parallel branch has created every task
Prepare(calls) ==
    [k \in 1..Len(calls) |->
        NewSlot(calls[k],
                IF RunsSequentially(calls) /\ k > 1 THEN "new" ELSE "ready")]

\* results collected as the tasks complete instead of in task order
GatherResults_completion(sl, fin) ==
    [i \in 1..Len(fin) |->
        [tool_call |-> sl[fin[i]].tc, response |-> sl[fin[i]].response,
         cached |-> sl[fin[i]].cached]]

\* The list _execute_tool_calls returns: the loop's appends, or gather's
\* results, which are in the order of the tasks handed to it
GatherResults(sl, fin) ==
    [k \in 1..Len(sl) |->
        [tool_call |-> sl[k].tc, response |-> sl[k].response,
         cached |-> sl[k].cached]]

\* _run_tool_call returned for slot k: the sequential loop goes on to k+1
Returned(sl, k) ==
    [j \in 1..Len(sl) |->
        IF j = k THEN [sl[j] EXCEPT !.pos = "done"]
        ELSE IF j = k + 1 /\ sl[j].pos = "new" THEN [sl[j] EXCEPT !.pos = "ready"]
        ELSE sl[j]]

ExecVars == <<Components, config, rounds, history, iteration, no_tool_count, full_response,
              tool_calls, mode, caller, last_tool_name, data_tool_calls,
              events, llm_count, ret>>

\* The tasks of the batch take steps while _execute_tool_calls awaits them;
\* the tasks of a parallel batch are not cancelled when gather raises, they go
\* on for as long as the event loop runs
Running ==
    \/ pc = "exec"
    \/ pc \in {"raised", "direct_raised"} /\ mode = "parallel"

\* _run_tool_call up to its first await: the unknown-tool answer, or the
\* dispatch of tool_execute_before
RunToolCall(k) ==
    /\ Running
    /\ slots[k].pos = "ready"
    /\ IF ~slots[k].known
       THEN /\ slots' = Returned(
                    [slots EXCEPT ![k].response =
                        Response(UnknownToolMsg(slots[k].tc.name), FALSE),
                                  ![k].rank = NextRank(slots)], k)
            /\ finished' = Append(finished, k)
       ELSE /\ slots' = [slots EXCEPT ![k].pos = "hook_before", ![k].hb = @ + 1]
            /\ UNCHANGED finished
    /\ UNCHANGED <<ExecVars, pc, results, tool_cache, last_call, telemetry, gate>>

\* an insert that keeps the entry of the first call to finish
CacheInsert_if_absent(cache, can_cache, key, response) ==
    IF can_cache /\ key \notin DOMAIN cache
    THEN CachePut(cache, key, CacheEntry(response))
    ELSE cache

\* an insert that leaves out the calls that timed out
CacheInsert_no_timeouts(cache, can_cache, key, response) ==
    IF can_cache /\ response.message.kind # "timed_out"
    THEN CachePut(cache, key, CacheEntry(response))
    ELSE cache

\* an insert that stores the tool's own results only, not error or timeout texts
CacheInsert_results_only(cache, can_cache, key, response) ==
    IF can_cache /\ response.message.kind \notin {"tool_error", "timed_out"}
    THEN CachePut(cache, key, CacheEntry(response))
    ELSE cache

\* if can_cache: cache[cache_key] = {message, break_loop}, whatever the response
CacheInsert(cache, can_cache, key, response) ==
    IF can_cache THEN CachePut(cache, key, CacheEntry(response)) ELSE cache

\* What follows a response in _execute_tool_with_instance and _run_tool_call up
\* to the await of tool_execute_after: cache insert, tool metrics, hook dispatch;
\* when the metrics step raises, _run_tool_call ends with that exception
Finish(k, response, exc) ==
    /\ tool_cache' = CacheInsert(tool_cache, slots[k].can_cache,
                                 _tool_cache_key(slots[k].tc), response)
    /\ last_call' = IF slots[k].can_cache
                    THEN CachePut(last_call, _tool_cache_key(slots[k].tc),
                                  [response |-> response, cached |-> FALSE,
                                   nb |-> slots[k].nb, ne |-> slots[k].ne,
                                   na |-> slots[k].na])
                    ELSE last_call
    /\ IF SummarizeRaises(response.message)
       THEN /\ telemetry' = telemetry
            /\ slots' = [slots EXCEPT ![k].response = response, ![k].cached = FALSE,
                                      ![k].exc = exc, ![k].rank = NextRank(slots),
                                      ![k].pos = "raised"]
       ELSE /\ telemetry' = _record_tool_metrics(telemetry, slots[k].tc, response, FALSE)
            /\ slots' = [slots EXCEPT ![k].response = response, ![k].cached = FALSE,
                                      ![k].exc = exc, ![k].rank = NextRank(slots),
                                      ![k].pos = "hook_after", ![k].ha = @ + 1]

\* a hit that returns the stored message as an ordinary, non-terminal response
CachedResponse_message_only(entry) == Response(entry.message, FALSE)

\* the Response built from a cache entry
CachedResponse(entry) == Response(entry.message, entry.break_loop)

\* _execute_tool_with_instance from its entry to the first await of _run():
\* a cache hit returns at once, a miss resolves the timeout and starts _run()
CacheLookup(k) ==
    /\ Running
    /\ slots[k].pos = "hook_before"
    /\ LET tc == slots[k].tc
           key == _tool_cache_key(tc)
           can_cache == config.cache_enabled /\ should_cache(tc.name, tc.args)
       IN IF can_cache /\ key \in DOMAIN tool_cache
          THEN LET response == CachedResponse(tool_cache[key])
               IN /\ last_call' = CachePut(last_call, key,
                                    [response |-> response, cached |-> TRUE,
                                     nb |-> 0, ne |-> 0, na |-> 0])
                  /\ IF SummarizeRaises(response.message)
                     THEN /\ telemetry' = telemetry
                          /\ slots' = [slots EXCEPT ![k].response = response,
                                                    ![k].cached = TRUE,
                                                    ![k].can_cache = can_cache,
                                                    ![k].rank = NextRank(slots),
                                                    ![k].pos = "raised"]
                     ELSE /\ telemetry' = _record_tool_metrics(telemetry, tc,
                                                               response, TRUE)
                          /\ slots' = [slots EXCEPT ![k].response = response,
                                                    ![k].cached = TRUE,
                                                    ![k].can_cache = can_cache,
                                                    ![k].rank = NextRank(slots),
                                                    ![k].pos = "hook_after",
                                                    ![k].ha = @ + 1]
          ELSE /\ slots' = [slots EXCEPT
                    ![k].can_cache = can_cache,
                    ![k].timeout = _get_tool_timeout(config.timeouts, tc.name,
                                        slots[k].tool_timeout,
                                        config.default_timeout),
                    ![k].pos = "before", ![k].nb = @ + 1]
               /\ UNCHANGED <<telemetry, last_call>>
    /\ UNCHANGED <<ExecVars, pc, finished, results, tool_cache, gate>>

\* before_execution returns and execute is entered
BeforeReturns(k) ==
    /\ Running
    /\ slots[k].pos = "before"
    /\ slots' = [slots EXCEPT ![k].pos = "executing", ![k].ne = @ + 1]
    /\ gate' = IF slots[k].tc.name = "parallel_gate"
               THEN [started |-> gate.started + 1,
                     event |-> gate.event \/ gate.started + 1 >= 2]
               ELSE gate
    /\ UNCHANGED <<ExecVars, pc, finished, results, tool_cache, last_call, telemetry>>

\* execute returns its Response and after_execution is entered
ExecuteReturns(k) ==
    /\ Running
    /\ slots[k].pos = "executing"
    /\ GateOpen(slots[k].tc.name)
    /\ slots' = [slots EXCEPT ![k].response = ExecuteResult(slots[k].tc),
                              ![k].pos = "after", ![k].na = @ + 1]
    /\ UNCHANGED <<ExecVars, pc, finished, results, tool_cache, last_call, telemetry, gate>>

\* after_execution returns the response: wait_for returns it
AfterReturns(k) ==
    /\ Running
    /\ slots[k].pos = "after"
    /\ Finish(k, slots[k].response, NoException)
    /\ UNCHANGED <<ExecVars, pc, finished, results, gate>>

\* the handlers of the try around wait_for: except asyncio.TimeoutError comes
\* first and takes every TimeoutError, except Exception takes the rest
ExceptResponse(name, timeout, e) ==
    IF e = "TimeoutError" THEN Response(TimedOutMsg(name, timeout), FALSE)
    ELSE Response(ToolErrorMsg(name, e), FALSE)

\* before_execution, execute or after_execution raises e
ToolRaises(k) ==
    /\ Running
    /\ slots[k].pos \in {"before", "executing", "after"}
    /\ MayRaise(slots[k].tc.name, slots[k].pos)
    /\ \E e \in ToolExceptions :
          Finish(k, ExceptResponse(slots[k].tc.name, slots[k].timeout, e), e)
    /\ UNCHANGED <<ExecVars, pc, finished, results, gate>>

\* the timeout of wait_for expires while _run() is suspended: except TimeoutError
ToolTimesOut(k) ==
    /\ Running
    /\ slots[k].pos \in {"before", "executing", "after"}
    /\ Suspends(slots[k].tc.name, slots[k].pos)
    /\ Finish(k, Response(TimedOutMsg(slots[k].tc.name, slots[k].timeout), FALSE),
              NoException)
    /\ UNCHANGED <<ExecVars, pc, finished, results, gate>>

\* the dispatch of tool_execute_after returns and _run_tool_call returns
HookAfterReturns(k) ==
    /\ Running
    /\ slots[k].pos = "hook_after"
    /\ slots' = Returned(slots, k)
    /\ finished' = Append(finished, k)
    /\ UNCHANGED <<ExecVars, pc, results, tool_cache, last_call, telemetry, gate>>

\* a batch taken as returned as soon as one of its calls has returned
BatchReturned_any(sl) == \E k \in 1..Len(sl) : sl[k].pos = "done"

\* the sequential loop has awaited every call, or gather has every result
BatchReturned(sl) == \A k \in 1..Len(sl) : sl[k].pos = "done"

\* every task is done: the loop ends, or gather returns
ExecutorReturns ==
    /\ pc = "exec"
    /\ BatchReturned(slots)
    /\ results' = GatherResults(slots, finished)
    /\ finished' = << >>
    /\ pc' = IF caller = "monologue" THEN "fold" ELSE "direct_returned"
    /\ UNCHANGED <<ExecVars, slots, tool_cache, last_call, telemetry, gate>>

\* the exception that leaves _summarize_text
AttributeError == Msg("AttributeError", "", "", 0)

\* a _run_tool_call raised: the await of the sequential loop, or gather,
\* raises it, and so does the caller, which catches nothing there
ExecutorRaises ==
    /\ pc = "exec"
    /\ \E k \in 1..Len(slots) : slots[k].pos = "raised"
    /\ ret' = AttributeError
    /\ pc' = IF caller = "monologue" THEN "raised" ELSE "direct_raised"
    /\ UNCHANGED <<Components, config, rounds, history, iteration, no_tool_count, full_response,
                   tool_calls, mode, caller, last_tool_name, data_tool_calls,
                   events, llm_count, slots, finished, results, tool_cache,
                   last_call, telemetry, gate>>

----------------------------------------------------------------------------
(* The output parser: OutputParser.extract_tool_calls *)

\* The raw text is a sequence of blocks. A block is fenced (```json ... ```) or
\* bare; it holds one JSON value or a top-level array of them; it is written
\* as JSON ("json"), with single quotes ("single_quoted"), or it is text that
\* no repair turns into JSON and that has no braces ("broken", no items).
\* An item is one of:
\*   "search"   {"tool_name":"memory","tool_args":{"action":"search","text":"a"}}
\*   "response" {"tool_name":"response","tool_args":{"text":"a"}}
\*   "flat"     {"tool_name":"memory"}
\*   "unknown"  {"tool_name":"ghost","tool_args":{}}
\*   "missing"  {"tool_name":"task_done","tool_args":{}}
\*   "badtype"  a registered tool with an argument its schema cannot coerce
\*   "scalar"   42
\*   "noname"   {"x":{}}
Items == {"search", "response", "flat", "unknown", "missing", "badtype",
          "scalar", "noname"}

Strategies == <<"code_fence", "raw_json", "bracket_match", "repair">>

\* the parser that is not running, with an empty output_parser.log
NoParse == [pc |-> "idle", raw_text |-> << >>, k |-> 0, results |-> << >>,
            errors |-> << >>, ret |-> << >>, log |-> << >>]

Payload(syntax, array, items) == [syntax |-> syntax, array |-> array, items |-> items]

\* "tool_name" in snippet
HasToolName(item) == item \notin {"scalar", "noname"}

\* the object matches \{[^{}]*\btool_name\b[^{}]*\}: no brace inside it
IsFlat(item) == item = "flat"

\* OutputParser._repair_json: single quotes become double quotes
_repair_json(syntax) == IF syntax = "single_quoted" THEN "json" ELSE syntax

RECURSIVE Concat(_)
Concat(seqs) == IF seqs = << >> THEN << >> ELSE Head(seqs) \o Concat(Tail(seqs))

\* the objects of the text that name a tool (the flat ones only, for the
\* regular expression), each a payload of its own
ObjectPayloads(text, flat_only) ==
    Concat([b \in 1..Len(text) |->
              LET kept == SelectSeq(text[b].items,
                              LAMBDA item : /\ HasToolName(item)
                                            /\ flat_only => IsFlat(item))
              IN [i \in 1..Len(kept) |->
                    Payload(text[b].syntax, FALSE, <<kept[i]>>)]])

IsFenced(block) == block.fenced

\* OutputParser._extract_from_code_fence: the content of every fence
_extract_from_code_fence(text) ==
    LET fenced == SelectSeq(text, IsFenced)
    IN [i \in 1..Len(fenced) |->
          Payload(fenced[i].syntax, fenced[i].array, fenced[i].items)]

\* OutputParser._extract_from_raw_json
_extract_from_raw_json(text) == ObjectPayloads(text, TRUE)

\* OutputParser._extract_with_bracket_matching
_extract_with_bracket_matching(text) == ObjectPayloads(text, FALSE)

\* OutputParser._extract_with_repair: the same objects, repaired (the repair of
\* the whole text applies to a text with "tool_name" outside every object,
\* which no text of this model is)
_extract_with_repair(text) ==
    LET found == ObjectPayloads(text, FALSE)
    IN [i \in 1..Len(found) |->
          Payload(_repair_json(found[i].syntax), FALSE, found[i].items)]

\* strategy(raw_text) for the k-th strategy
StrategyPayloads(k, text) ==
    CASE Strategies[k] = "code_fence" -> _extract_from_code_fence(text)
      [] Strategies[k] = "raw_json" -> _extract_from_raw_json(text)
      [] Strategies[k] = "bracket_match" -> _extract_with_bracket_matching(text)
      [] OTHER -> _extract_with_repair(text)

NoError == "none"

\* OutputParser._parse_json: json.loads, then json.loads of the repaired text
_parse_json(syntax) ==
    IF syntax = "json" THEN NoError
    ELSE IF _repair_json(syntax) = syntax THEN "invalid JSON"
    ELSE IF _repair_json(syntax) = "json" THEN NoError
    ELSE "invalid JSON after repair"

\* OutputParser._normalize_payload: the error, if the item is not a tool payload
_normalize_payload(item) ==
    IF item = "scalar" THEN "JSON payload is not an object"
    ELSE IF item = "noname" THEN "Missing tool_name"
    ELSE NoError

\* OutputParser._parse_payload: the parsed tools and the error; the first item
\* of an array that does not normalize ends the payload with its error
_parse_payload(payload) ==
    IF _parse_json(payload.syntax) # NoError
    THEN [parsed_tools |-> << >>, error |-> _parse_json(payload.syntax)]
    ELSE LET bad == {i \in 1..Len(payload.items) :
                        _normalize_payload(payload.items[i]) # NoError}
         IN IF bad = {}
            THEN [parsed_tools |-> payload.items, error |-> NoError]
            ELSE [parsed_tools |-> << >>,
                  error |-> _normalize_payload(
                      payload.items[CHOOSE i \in bad : \A j \in bad : i <= j])]

\* OutputParser._validate_tool_call: the error, if the call is rejected
ValidationError(item) ==
    CASE item = "unknown" -> "Unknown tool"
      [] item = "missing" -> "Missing required args"
      [] item = "badtype" -> "Invalid type"
      [] OTHER -> NoError

\* the ToolCall _validate_tool_call returns for a call it accepts
ValidatedCall(item) ==
    CASE item = "search" -> ToolCall("memory", "search", "a")
      [] item = "response" -> ToolCall("response", Absent, "a")
      [] OTHER -> ToolCall("memory", Absent, Absent)

IsValid(item) == ValidationError(item) = NoError

\* the inner loops of extract_tool_calls over the payloads from the p-th on:
\* what they append to results and to errors
RECURSIVE PayloadLoop(_, _, _, _)
PayloadLoop(k, payloads, p, acc) ==
    IF p > Len(payloads) THEN acc
    ELSE LET parsed == _parse_payload(payloads[p])
             valid == SelectSeq(parsed.parsed_tools, IsValid)
             rejected == SelectSeq(parsed.parsed_tools, LAMBDA item : ~IsValid(item))
         IN PayloadLoop(k, payloads, p + 1,
              IF parsed.error # NoError
              THEN [acc EXCEPT !.errors = Append(@, <<Strategies[k], parsed.error>>)]
              ELSE [results |-> acc.results \o
                        [i \in 1..Len(valid) |-> ValidatedCall(valid[i])],
                    errors |-> acc.errors \o
                        [i \in 1..Len(rejected) |->
                            <<Strategies[k], ValidationError(rejected[i])>>]])

\* a parser that goes through every strategy before it returns
StrategyReturns_after_all(found, k) == found # << >> /\ k = Len(Strategies)

\* if results: return results
StrategyReturns(found, k) == found # << >>

\* extract_tool_calls(raw_text, ...) up to the loop over the strategies
ExtractToolCalls(raw_text) ==
    /\ parse.pc = "idle"
    /\ parse' = [NoParse EXCEPT !.pc = "strategies", !.raw_text = raw_text,
                                !.k = 1, !.log = parse.log]

\* one pass of the loop over the strategies
StrategyStep ==
    /\ parse.pc = "strategies"
    /\ parse.k <= Len(Strategies)
    /\ LET acc == PayloadLoop(parse.k, StrategyPayloads(parse.k, parse.raw_text), 1,
                              [results |-> parse.results, errors |-> parse.errors])
       IN parse' = IF StrategyReturns(acc.results, parse.k)
                   THEN [parse EXCEPT !.pc = "returned", !.results = acc.results,
                                      !.errors = acc.errors, !.ret = acc.results]
                   ELSE [parse EXCEPT !.k = @ + 1, !.results = acc.results,
                                      !.errors = acc.errors]

\* a logger that writes a record only when some strategy reported an error
_log_failure_when_errors(log, raw_text, errors) ==
    IF errors = << >> THEN log
    ELSE Append(log, [raw_text |-> raw_text, errors |-> errors])

\* OutputParser._log_failure: one warning record with the error block and the
\* raw output
_log_failure(log, raw_text, errors) ==
    Append(log, [raw_text |-> raw_text,
                 errors |-> IF errors = << >>
                            THEN <<"No valid tool call found">> ELSE errors])

\* no strategy returned: _log_failure(raw_text, errors), return []
ExtractFails ==
    /\ parse.pc = "strategies"
    /\ parse.k > Len(Strategies)
    /\ parse' = [parse EXCEPT !.pc = "returned", !.ret = << >>,
                              !.log = _log_failure(@, parse.raw_text, parse.errors)]

----------------------------------------------------------------------------
(* Names and arguments of one payload: _normalize_payload, _normalize_args *)
(* and _validate_tool_call.  A tool name is the registry name it spells    *)
(* and the letter case it is written in; an argument value is a JSON       *)
(* string.                                                                 *)
MaxArgs == 2

LetterCases == {"lower", "Title", "UPPER"}

Spellings == {"response", "task_done", "code_execution", "memory", "ghost"}

WrittenNames == [spelling : Spellings, case : LetterCases]

\* a string literal of the source: all its letters are lower case
Literal(spelling) == [spelling |-> spelling, case |-> "lower"]

\* str.lower
Lower(name) == [name EXCEPT !.case = "lower"]

ArgKeys == {"text", "message", "content", "answer", "code", "script", "command", "query"}

ArgValues == {"a", "b", ""}

ArgMaps ==
    UNION {[D -> ArgValues] : D \in {K \in SUBSET ArgKeys : Cardinality(K) <= MaxArgs}}

\* ToolRegistry.tool_names of the built-in tools the alias table names
registered_tools == {Literal(t) : t \in Spellings \ {"ghost"}}

\* registered = {t.lower(): t for t in registered_tools}
registered == [key \in {Lower(t) : t \in registered_tools} |->
                 CHOOSE t \in registered_tools : Lower(t) = key]

\* get_tool_schemas()[name]["required_args"]: only task_done declares one
required_args(name) == IF name = Literal("task_done") THEN {"text"} ELSE {}

\* if key not in args: for alt in alts: if alt in args: args[key] = args[alt]; break
CopyAlias(args, key, alts) ==
    LET present == {i \in 1..Len(alts) : alts[i] \in DOMAIN args}
    IN  IF key \in DOMAIN args \/ present = {} THEN args
        ELSE LET first == CHOOSE i \in present : \A j \in present : i <= j
             IN  [k \in DOMAIN args \cup {key} |->
                    IF k = key THEN args[alts[first]] ELSE args[k]]

\* OutputParser._normalize_args: the table is looked up with the name as the
\* payload spells it
_normalize_args(tool_name, args) ==
    LET a1 == IF tool_name \in {Literal("response"), Literal("task_done")}
              THEN CopyAlias(args, "text", <<"message", "content", "answer">>)
              ELSE args
        a2 == IF tool_name = Literal("code_execution")
              THEN CopyAlias(a1, "code", <<"script", "command">>)
              ELSE a1
    IN  IF tool_name = Literal("memory")
        THEN CopyAlias(a2, "text", <<"query">>)
        ELSE a2

\* the ParsedTool of a payload that is an object with a tool_name and an
\* object of tool_args
ParsedTool(payload) ==
    [name |-> payload.tool_name,
     args |-> _normalize_args(payload.tool_name, payload.tool_args)]

NoCall == [name |-> Literal(""), args |-> << >>]

\* OutputParser._validate_tool_call on string arguments, which the str
\* coercion returns as they are
_validate_tool_call(parsed) ==
    LET tool_key == Lower(parsed.name)
    IN  IF tool_key \notin DOMAIN registered
        THEN [call |-> NoCall, error |-> "Unknown tool"]
        ELSE LET canonical_name == registered[tool_key]
                 missing == {key \in required_args(canonical_name) :
                               key \notin DOMAIN parsed.args \/ parsed.args[key] = ""}
             IN  IF missing # {}
                 THEN [call |-> NoCall, error |-> "Missing required args"]
                 ELSE [call |-> [name |-> canonical_name, args |-> parsed.args],
                       error |-> NoError]

NoNorm == [pc |-> "idle", payload |-> NoCall, parsed |-> NoCall,
           call |-> NoCall, error |-> NoError]

\* a payload reaches _normalize_payload
NormalizeBegin(payload) ==
    /\ norm.pc = "idle"
    /\ norm' = [norm EXCEPT !.pc = "payload", !.payload = payload]

\* _normalize_payload returns the ParsedTool
NormalizePayload ==
    /\ norm.pc = "payload"
    /\ norm' = [norm EXCEPT !.pc = "parsed",
                            !.parsed = ParsedTool([tool_name |-> norm.payload.name,
                                                   tool_args |-> norm.payload.args])]

\* _validate_tool_call returns the call or the error
ValidateToolCall ==
    /\ norm.pc = "parsed"
    /\ LET v == _validate_tool_call(norm.parsed)
       IN  norm' = [norm EXCEPT !.pc = "done", !.call = v.call, !.error = v.error]

----------------------------------------------------------------------------
(* The model router: ModelRouter.select_model.  A model name is the         *)
(* sequence of its parts between colons ("phi3:mini" is <<"phi3", "mini">>, *)
(* the empty name is << >>); a text is the set of the words in it.          *)

MaxMessages == 2

ChatModel == <<"chat-model">>

\* ModelRouterConfig.routes: the table of the tests, one whose default differs
\* from its reasoning model, and one without a default and with an empty entry
RouteTables ==
    {[reasoning |-> <<"base-model">>, coding |-> <<"code-model">>,
      summarization |-> <<"sum-model">>, default |-> <<"base-model">>],
     [reasoning |-> <<"llama3">>, coding |-> <<"code-model">>,
      summarization |-> <<"phi3", "mini">>, default |-> <<"base-model">>],
     [reasoning |-> <<"base-model">>, coding |-> << >>]}

\* ModelRouterConfig.tool_affinity
AffinityTables ==
    {<< >>, [code_execution |-> "coding"], [code_execution |-> "vision"]}

\* names the backend may list
ListedModels ==
    {<<"base-model">>, <<"code-model", "7b">>, <<"phi3", "mini">>, ChatModel}

RouterTexts ==
    {{}, {"hello"}, {"fence"}, {"import", "hello"}, {"summarize"},
     {"fence", "summarize"}}

RouterMessages ==
    UNION {[1..n -> [role : {"user", "assistant"}, content : RouterTexts]] :
             n \in 0..MaxMessages}

LastToolNames == {"", "code_execution", "memory"}

\* self._default_model = routes.get("default") or config.chat_model.model_name
_default_model(r) ==
    IF "default" \in DOMAIN r.routes /\ r.routes["default"] # << >>
    THEN r.routes["default"] ELSE r.chat_model

\* the None that _route_from_tool returns, among route keys
NoRoute == "None"

\* self._available_models = None: no list has been observed
NotLoaded == [loaded |-> FALSE, names |-> {}]

\* set_available_models, refresh_models: the listed names
Loaded(names) == [loaded |-> TRUE, names |-> names]

\* ModelRouter._route_from_tool
_route_from_tool(r, tool_name) ==
    IF tool_name = "" THEN NoRoute
    ELSE IF tool_name \in DOMAIN r.tool_affinity
         THEN r.tool_affinity[tool_name] ELSE NoRoute

\* the first user message in place of the last
_last_user_message_first(messages) ==
    LET users == {i \in 1..Len(messages) : messages[i].role = "user"}
    IN  IF users = {} THEN {}
        ELSE messages[CHOOSE i \in users : \A j \in users : i <= j].content

\* ModelRouter._last_user_message
_last_user_message(messages) ==
    LET users == {i \in 1..Len(messages) : messages[i].role = "user"}
    IN  IF users = {} THEN {}
        ELSE messages[CHOOSE i \in users : \A j \in users : i >= j].content

\* ModelRouter._looks_like_code: a fence, a code keyword or a file extension
_looks_like_code(text) == text \cap {"fence", "import"} # {}

\* ModelRouter._looks_like_summary
_looks_like_summary(text) == "summarize" \in text

\* ModelRouter._route_from_messages
_route_from_messages(messages) ==
    LET text == _last_user_message(messages)
    IN  IF text = {} THEN "default"
        ELSE IF _looks_like_code(text) THEN "coding"
        ELSE IF _looks_like_summary(text) THEN "summarization"
        ELSE "reasoning"

\* ModelRouter._model_for_route
_model_for_route(r, route_key) ==
    IF route_key = "" THEN _default_model(r)
    ELSE IF route_key \in DOMAIN r.routes THEN r.routes[route_key]
         ELSE _default_model(r)

\* a lookup that knows exact names only
_model_available_exact(required, available) == required \in available

\* OllamaClient._model_available: the name itself, or a listed name that
\* starts with the name and a colon
_model_available(required, available) ==
    \/ required \in available
    \/ \E name \in available :
         /\ Len(name) > Len(required)
         /\ SubSeq(name, 1, Len(required)) = required

\* ModelRouter._is_available
_is_available(r, model) ==
    IF model = << >> THEN FALSE
    ELSE IF ~r._available_models.loaded THEN TRUE
         ELSE _model_available(model, r._available_models.names)

\* a router that asks the messages before the tool
RouteKey_messages_first(r, messages, tool_name) ==
    IF _last_user_message(messages) # {} THEN _route_from_messages(messages)
    ELSE IF _route_from_tool(r, tool_name) # NoRoute
         THEN _route_from_tool(r, tool_name)
         ELSE "default"

\* select_model, lines 54-56: the route key
RouteKey(r, messages, tool_name) ==
    IF _route_from_tool(r, tool_name) # NoRoute
    THEN _route_from_tool(r, tool_name)
    ELSE _route_from_messages(messages)

\* select_model, lines 58-66: the model of the route, the default model or
\* the chat model
ModelOfRoute(r, route_key) ==
    LET model == _model_for_route(r, route_key)
        fallback == _default_model(r)
    IN  IF _is_available(r, model) THEN model
        ELSE IF _is_available(r, fallback) THEN fallback
        ELSE r.chat_model

NoRouter ==
    [pc |-> "idle", enabled |-> FALSE, routes |-> << >>, tool_affinity |-> << >>,
     chat_model |-> ChatModel, _available_models |-> NotLoaded,
     messages |-> << >>, last_tool_name |-> "", route_key |-> NoRoute,
     ret |-> << >>]

\* select_model with routing disabled
SelectModelDisabled(messages, tool_name) ==
    /\ router.pc = "idle"
    /\ ~router.enabled
    /\ router' = [router EXCEPT !.pc = "returned", !.messages = messages,
                                !.last_tool_name = tool_name,
                                !.ret = router.chat_model]

\* select_model with routing enabled
SelectModel(messages, tool_name) ==
    /\ router.pc = "idle"
    /\ router.enabled
    /\ LET route_key == RouteKey(router, messages, tool_name)
       IN  router' = [router EXCEPT !.pc = "returned", !.messages = messages,
                                    !.last_tool_name = tool_name,
                                    !.route_key = route_key,
                                    !.ret = ModelOfRoute(router, route_key)]

----------------------------------------------------------------------------
(* Tool discovery: ToolRegistry._register_mcp_tools and                     *)
(* MCPBridge.discover_tools.  A tool name is the sequence of its parts      *)
(* between dots ("beta.read_file" is <<"beta", "read_file">>).              *)

MaxTools == 2

\* config.mcp.servers, by name
Servers == <<"alpha", "beta">>

\* names a server may list; the last one is spelled like a prefixed name
MCPToolNames == {<<"memory">>, <<"read_file">>, <<"beta", "read_file">>}

ToolLists == UNION {[1..n -> MCPToolNames] : n \in 0..MaxTools}

\* the tool classes found in the tools directory
BuiltinNames == {<<"memory">>, <<"response">>}

BuiltinTool(name) == [server |-> "builtin", spec |-> name, at |-> <<0, 0>>]

\* the class _build_tool_class makes for the i-th tool listed by server s
MCPTool(s, i, spec) == [server |-> Servers[s], spec |-> spec, at |-> <<s, i>>]

\* str(idx)
Str(idx) == <<"0", "1", "2", "3", "4", "5", "6", "7", "8", "9">>[idx + 1]

\* the keys of a dict kept as a sequence of [name, tool] items
Keys(items) == {items[i].name : i \in 1..Len(items)}

\* tools[tool_name] = tool_cls on a dict in insertion order
DictSet(items, name, tool) ==
    IF name \in Keys(items)
    THEN [i \in 1..Len(items) |->
            IF items[i].name = name THEN [name |-> name, tool |-> tool] ELSE items[i]]
    ELSE Append(items, [name |-> name, tool |-> tool])

\* a bridge that gives every tool the name its server lists it under
_unique_tool_name_plain(tool_name, server_name, existing) == tool_name

\* MCPBridge._unique_tool_name
_unique_tool_name(tool_name, server_name, existing) ==
    LET prefixed == <<server_name>> \o tool_name
    IN  IF tool_name \notin existing THEN tool_name
        ELSE IF prefixed \notin existing THEN prefixed
        ELSE LET idx == CHOOSE n \in 2..9 :
                           /\ Append(prefixed, Str(n)) \notin existing
                           /\ \A k \in 2..(n - 1) : Append(prefixed, Str(k)) \in existing
             IN  Append(prefixed, Str(idx))

NoRegistry ==
    [pc |-> "idle", enabled |-> FALSE, lists |-> << >>, s |-> 0, i |-> 0,
     tools |-> << >>, k |-> 0, _tool_classes |-> << >>]

\* _register_mcp_tools with config.mcp.enabled false
RegisterMCPDisabled ==
    /\ registry.pc = "builtins"
    /\ ~registry.enabled
    /\ registry' = [registry EXCEPT !.pc = "done"]

\* _register_mcp_tools calls bridge.discover_tools_sync()
BridgeDiscovers ==
    /\ registry.pc = "builtins"
    /\ registry.enabled
    /\ registry' = [registry EXCEPT !.pc = "bridge", !.s = 1, !.i = 1]

\* discover_tools: the next spec of the server's list gets its name and class
BridgeAddsTool ==
    /\ registry.pc = "bridge"
    /\ registry.s <= Len(Servers)
    /\ registry.i <= Len(registry.lists[registry.s])
    /\ LET spec == registry.lists[registry.s][registry.i]
           tool_name == _unique_tool_name(spec, Servers[registry.s],
                                          Keys(registry.tools))
       IN  registry' = [registry EXCEPT
                          !.tools = DictSet(@, tool_name,
                                            MCPTool(registry.s, registry.i, spec)),
                          !.i = @ + 1]

\* discover_tools: the list of the server is done
BridgeNextServer ==
    /\ registry.pc = "bridge"
    /\ registry.s <= Len(Servers)
    /\ registry.i > Len(registry.lists[registry.s])
    /\ registry' = [registry EXCEPT !.s = @ + 1, !.i = 1]

\* discover_tools: the server raises (initialize, list_tools or building a
\* class); its tools so far stay and the next server is asked
ServerFails ==
    /\ registry.pc = "bridge"
    /\ registry.s <= Len(Servers)
    /\ registry.i <= Len(registry.lists[registry.s])
    /\ registry' = [registry EXCEPT !.s = @ + 1, !.i = 1]

\* discover_tools returns the dict
BridgeReturns ==
    /\ registry.pc = "bridge"
    /\ registry.s > Len(Servers)
    /\ registry' = [registry EXCEPT !.pc = "register", !.k = 1]

\* _register_mcp_tools: the name is registered already: print, continue
RegisterCollision ==
    /\ registry.pc = "register"
    /\ registry.k <= Len(registry.tools)
    /\ registry.tools[registry.k].name \in DOMAIN registry._tool_classes
    /\ registry' = [registry EXCEPT !.k = @ + 1]

\* _register_mcp_tools: self._tool_classes[name] = cls
RegisterTool ==
    /\ registry.pc = "register"
    /\ registry.k <= Len(registry.tools)
    /\ LET item == registry.tools[registry.k]
       IN  /\ item.name \notin DOMAIN registry._tool_classes
           /\ registry' = [registry EXCEPT
                  !.k = @ + 1,
                  !._tool_classes =
                      [n \in DOMAIN @ \cup {item.name} |->
                         IF n = item.name THEN item.tool ELSE @[n]]]

\* _register_mcp_tools returns
RegisterReturns ==
    /\ registry.pc = "register"
    /\ registry.k > Len(registry.tools)
    /\ registry' = [registry EXCEPT !.pc = "done"]

----------------------------------------------------------------------------
(* The session store as the monologue uses it: append_message,              *)
(* _persist_tool_call and _persist_token_counts with context.session_store  *)
(* set and config.session.auto_save on.  A call of the store may raise.     *)

StoreOps == {"save_message", "set_title", "save_tool_call", "increment_token_counts"}

\* no store is attached: nothing is called
NoStore == [calls |-> [op \in StoreOps |-> 0], errors |-> [op \in StoreOps |-> 0]]

\* a caller without the try around the store
StoreCatches_nothing(op) == FALSE

\* try: session_store.<op>(...) except Exception: pass
StoreCatches(op) == TRUE

\* the store after n calls of op, of which the i-th raises when <<op, i>> is
\* in failing
StoreAfter(st, op, n, failing) ==
    [st EXCEPT !.calls[op] = @ + n,
               !.errors[op] = @ + Cardinality({i \in 1..n : <<op, i>> \in failing})]

\* a step of the monologue and the store calls it makes: one save_message for
\* every message appended, set_title after the saved first user message, one
\* save_tool_call for every record, increment_token_counts after the LLM call
StoreStep(step, tokens, failing) ==
    IF \A call \in failing : StoreCatches(call[1])
    THEN /\ step
         /\ LET messages == Len(history') - Len(history)
                titles == IF pc = "idle" /\ <<"save_message", 1>> \notin failing
                          THEN 1 ELSE 0
                records == Len(data_tool_calls') - Len(data_tool_calls)
            IN  store' = StoreAfter(
                           StoreAfter(
                             StoreAfter(
                               StoreAfter(store, "increment_token_counts", tokens, failing),
                               "save_message", messages, failing),
                             "set_title", titles, failing),
                           "save_tool_call", records, failing)
    ELSE /\ pc' = "raised"
         /\ LET call == CHOOSE call \in failing : ~StoreCatches(call[1])
            IN  store' = StoreAfter(store, call[1], 1, {<<call[1], 1>>})
         /\ UNCHANGED <<Components, config, rounds, history, iteration, no_tool_count,
                        full_response, tool_calls, mode, slots, finished, results,
                        tool_cache, last_call, telemetry, caller, last_tool_name,
                        data_tool_calls, events, llm_count, ret, gate>>

----------------------------------------------------------------------------
(* Extensions: ExtensionManager.dispatch *)

\* What the handler of an extension does when it is awaited: there is none
\* (getattr gives None), it returns None, it returns a value, it raises
Handlers == {"absent", "returns_none", "returns_value", "raises"}

\* the dispatch that is not running
NoDispatch == [pc |-> "idle", i |-> 0, result |-> None, invoked |-> << >>, ret |-> None]

\* the value the handler of the i-th extension returns when it returns one
HandlerValue(i) == i

\* a handler that keeps the first value: later values are dropped
DispatchResult_first(result, handler_ret) ==
    IF result = None THEN handler_ret ELSE result

\* if ret is not None: result = ret
DispatchResult(result, handler_ret) ==
    IF handler_ret # None THEN handler_ret ELSE result

\* a handler clause that takes no exception
Catches_nothing(e) == FALSE

\* except Exception as e
Catches(e) == e \in ToolExceptions

\* dispatch(hook_name, **kwargs) up to the for loop
DispatchBegin ==
    /\ dispatch.pc = "idle"
    /\ dispatch' = [NoDispatch EXCEPT !.pc = "loop", !.i = 1]

\* the loop skips an extension: not enabled, or no method of that name
DispatchSkips ==
    /\ dispatch.pc = "loop"
    /\ dispatch.i <= Len(extensions)
    /\ \/ ~extensions[dispatch.i].enabled
       \/ extensions[dispatch.i].handler = "absent"
    /\ dispatch' = [dispatch EXCEPT !.i = @ + 1]

\* ret = await method(**kwargs): the handler is entered
DispatchAwaits ==
    /\ dispatch.pc = "loop"
    /\ dispatch.i <= Len(extensions)
    /\ extensions[dispatch.i].enabled
    /\ extensions[dispatch.i].handler # "absent"
    /\ dispatch' = [dispatch EXCEPT !.pc = "awaiting",
                                    !.invoked = Append(@, dispatch.i)]

\* the handler returns
HandlerReturns ==
    /\ dispatch.pc = "awaiting"
    /\ extensions[dispatch.i].handler \in {"returns_none", "returns_value"}
    /\ LET handler_ret == IF extensions[dispatch.i].handler = "returns_value"
                          THEN HandlerValue(dispatch.i) ELSE None
       IN dispatch' = [dispatch EXCEPT !.pc = "loop", !.i = @ + 1,
                          !.result = DispatchResult(dispatch.result, handler_ret)]

\* the handler raises e: the except clause prints it and the loop goes on, or
\* e leaves dispatch
HandlerRaises ==
    /\ dispatch.pc = "awaiting"
    /\ extensions[dispatch.i].handler = "raises"
    /\ \E e \in ToolExceptions :
          dispatch' = IF Catches(e)
                      THEN [dispatch EXCEPT !.pc = "loop", !.i = @ + 1]
                      ELSE [dispatch EXCEPT !.pc = "raised"]

\* return result
DispatchReturns ==
    /\ dispatch.pc = "loop"
    /\ dispatch.i > Len(extensions)
    /\ dispatch' = [dispatch EXCEPT !.pc = "returned", !.ret = dispatch.result]

----------------------------------------------------------------------------
(* Inputs: tool calls, LLM outputs *)

TCResponse == ToolCall("response", Absent, "a")
TCDone == ToolCall("task_done", Absent, "b")
TCSearch == ToolCall("memory", "search", "a")
TCSave == ToolCall("memory", "save", "a")
TCNull == ToolCall("response", Absent, Null)
TCPlugin == ToolCall("plugin", Absent, Absent)
TCGhost == ToolCall("ghost", Absent, Absent)
TCGate == ToolCall("parallel_gate", Absent, Absent)

\* calls the parser can yield: their names are registered
ParsedCalls == {TCResponse, TCNull, TCDone, TCSearch, TCSave}

\* calls a direct caller of _execute_tool_calls can pass
DirectCalls == {TCSearch, TCPlugin, TCGhost}

Batches(S, lo) == UNION {[1..n -> S] : n \in lo..MaxBatch}

Text(text, calls) == [text |-> text, calls |-> calls]

EmptyText == Text("", << >>)

LLMOutputs ==
    {Text("plain", << >>)} \cup {Text("json", b) : b \in Batches(ParsedCalls, 1)}

\* Agent._extract_tools: the valid calls the parser finds in the text
_extract_tools(text) == text.calls

\* Agent._estimate_tokens, as far as zero or not
_estimate_tokens(text) == IF text.text = "" THEN 0 ELSE 1

----------------------------------------------------------------------------
(* History *)

Content(kind, name, msg, llm) == [kind |-> kind, name |-> name, msg |-> msg, llm |-> llm]

\* a string that is a message by itself (user text, error text, reminder, ...)
Bare(msg) == Content("bare", "", msg, EmptyText)

\* f"[Tool '{tc.name}' result]:\n{response.message}"
ToolResultContent(name, message) == Content("tool_result", name, message, EmptyText)

\* an append that stores the role as it is given
append_message_as_given(hist, role, content) ==
    Append(hist, [role |-> role, content |-> content])

\* Agent.append_message: roles other than the three are stored as system
append_message(hist, role, content) ==
    Append(hist, [role |-> IF role \in {"user", "assistant", "system"}
                           THEN role ELSE "system",
                  content |-> content])

Event(name, arg) == [name |-> name, arg |-> arg]

\* the for loop over results: the history after folding results k..Len
RECURSIVE FoldHistory(_, _, _)
FoldHistory(hist, res, k) ==
    IF k > Len(res) THEN hist
    ELSE FoldHistory(
            append_message(hist, "system",
                ToolResultContent(res[k].tool_call.name, res[k].response.message)),
            res, k + 1)

\* without the "final_response is None" test the last break_loop result wins
RECURSIVE FinalIndex_last(_, _, _)
FinalIndex_last(res, k, final) ==
    IF k > Len(res) THEN final
    ELSE FinalIndex_last(res, k + 1,
            IF res[k].response.break_loop THEN k ELSE final)

\* the for loop over results: index of the result that sets final_response
\* (0 when none does); final is the index found so far
RECURSIVE FinalIndex(_, _, _)
FinalIndex(res, k, final) ==
    IF k > Len(res) THEN final
    ELSE FinalIndex(res, k + 1,
            IF res[k].response.break_loop /\ final = 0 THEN k ELSE final)

\* records written as the calls got their responses
PersistAll_as_completed(log, res) ==
    log \o [i \in 1..Len(res) |->
              LET k == CHOOSE j \in 1..Len(res) : slots[j].rank = i
              IN [tool_name |-> res[k].tool_call.name, args |-> res[k].tool_call.args,
                  result |-> res[k].response.message]]

\* Agent._persist_tool_call for every result, in the loop's order
PersistAll(log, res) ==
    log \o [k \in 1..Len(res) |->
              [tool_name |-> res[k].tool_call.name, args |-> res[k].tool_call.args,
               result |-> res[k].response.message]]

----------------------------------------------------------------------------
(* The monologue loop: Agent.monologue *)

ReminderThreshold == 5

LLMErrorKinds == {"llm_model_error", "llm_connection_error", "llm_error"}

UserMessages == {"q"}

\* monologue(user_message) up to the while loop; a run of the model follows
\* one monologue of a fresh agent
Monologue(user_message) ==
    /\ pc = "idle"
    /\ caller' = "monologue"
    /\ history' = append_message(history, "user",
                                 Bare(Msg("text", "", user_message, 0)))
    /\ events' = <<Event("message_loop_start", NoMsg)>>
    /\ iteration' = 0
    /\ no_tool_count' = 0
    /\ llm_count' = 0
    /\ full_response' = EmptyText
    /\ ret' = NoMsg
    /\ pc' = "loop"
    /\ UNCHANGED <<Components, config, rounds, tool_calls, mode, slots, finished, results, tool_cache, last_call,
                   telemetry, last_tool_name, data_tool_calls, gate>>

\* the loop condition: while iteration < max_iter
LoopContinues(iter, max_iter) == iter < max_iter

\* the loop body up to the LLM call: steps 1-4 and the start of step 5
IterationBegin ==
    /\ pc = "loop"
    /\ LoopContinues(iteration, config.max_monologue_iterations)
    /\ iteration' = iteration + 1
    /\ events' = events \o <<Event("message_loop_prompts_before", NoMsg),
                             Event("before_llm_call", NoMsg)>>
    /\ full_response' = EmptyText
    /\ llm_count' = llm_count + 1
    /\ pc' = "llm"
    /\ UNCHANGED <<Components, config, rounds, history, no_tool_count, tool_calls, mode, slots,
                   finished, results, tool_cache, last_call, telemetry, caller,
                   last_tool_name, data_tool_calls, ret, gate>>

\* an ending that dispatches the hook and leaves telemetry open
EndEvents_hook_only(final_response, final_tool_name) ==
    <<Event("monologue_end", final_response)>>

\* the two calls before a return with a final response or with the fallback:
\* the monologue_end hook, then telemetry.finalize
EndEvents(final_response, final_tool_name) ==
    <<Event("monologue_end", final_response),
      Event("finalize", Msg("text", "", final_tool_name, 0))>>

\* the loop condition fails: the fallback after the loop
MaxIterationsReached ==
    /\ pc = "loop"
    /\ ~LoopContinues(iteration, config.max_monologue_iterations)
    /\ events' = events \o EndEvents(FallbackMsg, "max_iterations")
    /\ telemetry' = finalize(telemetry, "max_iterations")
    /\ ret' = FallbackMsg
    /\ pc' = "returned"
    /\ UNCHANGED <<Components, config, rounds, history, iteration, no_tool_count, full_response,
                   tool_calls, mode, slots, finished, results, tool_cache, last_call, caller,
                   last_tool_name, data_tool_calls, llm_count, gate>>

\* chunks of the stream arrive: full_response += chunk
LLMChunk(out) ==
    /\ pc = "llm"
    /\ full_response = EmptyText
    /\ _extract_tools(out) # << >> => rounds < MaxRounds
    /\ full_response' = out
    /\ UNCHANGED <<Components, config, pc, rounds, history, iteration, no_tool_count, tool_calls,
                   mode, slots, finished, results, tool_cache, last_call, telemetry, caller,
                   last_tool_name, data_tool_calls, events, llm_count, ret, gate>>

\* an except branch that keeps the partial text before the error text
LLMErrorHistory_partial(hist, partial, error_msg) ==
    append_message(
        append_message(hist, "assistant", Content("llm_text", "", NoMsg, partial)),
        "assistant", Bare(error_msg))

\* what an except branch appends: the error text, not the partial full_response
LLMErrorHistory(hist, partial, error_msg) ==
    append_message(hist, "assistant", Bare(error_msg))

\* ensure_models_loaded, select_model or the stream raises: the three except
\* branches, which differ in the prefix of the error text only
LLMFails(kind) ==
    /\ pc = "llm"
    /\ LET error_msg == LLMErrorMsg(kind, "e")
       IN /\ telemetry' = _record_iteration(
                            _record_llm_metrics(telemetry, 0, error_msg),
                            iteration, "llm_error")
          /\ history' = LLMErrorHistory(history, full_response, error_msg)
          /\ ret' = error_msg
    /\ pc' = "returned"
    /\ UNCHANGED <<Components, config, rounds, iteration, no_tool_count, full_response,
                   tool_calls, mode, slots, finished, results, tool_cache, last_call, caller,
                   last_tool_name, data_tool_calls, events, llm_count, gate>>

\* if no_tool_count >= 5, after no_tool_count += 1
ReminderDue(count) == count >= ReminderThreshold

\* a counter that is never reset by a reminder
NoToolCountAfter_keep(count) == count

\* no_tool_count = 0 inside the reminder branch
NoToolCountAfter(count) == IF ReminderDue(count) THEN 0 ELSE count

\* the stream ends: steps 6-8, then the no-tool branch or the start of step 9
LLMReturns ==
    /\ pc = "llm"
    /\ events' = Append(events, Event("after_llm_call", NoMsg))
    /\ LET calls == _extract_tools(full_response)
           tel == _record_llm_metrics(telemetry, _estimate_tokens(full_response), NoMsg)
           hist == append_message(history, "assistant",
                                  Content("llm_text", "", NoMsg, full_response))
       IN IF calls = << >>
          THEN /\ history' = IF ReminderDue(no_tool_count + 1)
                              THEN append_message(hist, "system", Bare(ReminderMsg))
                              ELSE hist
               /\ no_tool_count' = NoToolCountAfter(no_tool_count + 1)
               /\ telemetry' = _record_iteration(tel, iteration, "no_tool")
               /\ pc' = "loop"
               /\ UNCHANGED <<rounds, tool_calls, mode, slots, finished>>
          ELSE /\ history' = hist
               /\ no_tool_count' = 0
               /\ telemetry' = tel
               /\ tool_calls' = calls
               /\ mode' = IF RunsSequentially(calls) THEN "sequential" ELSE "parallel"
               /\ slots' = Prepare(calls)
               /\ finished' = << >>
               /\ rounds' = rounds + 1
               /\ pc' = "exec"
    /\ UNCHANGED <<Components, config, iteration, full_response, results, tool_cache, last_call,
                   caller, last_tool_name, data_tool_calls, llm_count, ret, gate>>

\* the for loop over the results and what follows it in the iteration
FoldResults ==
    /\ pc = "fold"
    /\ history' = FoldHistory(history, results, 1)
    /\ data_tool_calls' = PersistAll(data_tool_calls, results)
    /\ last_tool_name' = results[Len(results)].tool_call.name
    /\ LET final == FinalIndex(results, 1, 0)
       IN IF final # 0
          THEN LET final_response == results[final].response.message
                   final_tool_name == results[final].tool_call.name
               IN /\ events' = events \o EndEvents(final_response, final_tool_name)
                  /\ telemetry' = _record_iteration(
                                    finalize(telemetry, final_tool_name),
                                    iteration, "final")
                  /\ ret' = final_response
                  /\ pc' = "returned"
          ELSE /\ telemetry' = _record_iteration(telemetry, iteration, "tool")
               /\ pc' = "loop"
               /\ UNCHANGED <<events, ret>>
    /\ UNCHANGED <<Components, config, rounds, iteration, no_tool_count, full_response,
                   tool_calls, mode, slots, finished, results, tool_cache, last_call, caller,
                   llm_count, gate>>

\* a caller (a test) awaits _execute_tool_calls(calls) itself, any number of
\* times on one agent
DirectCall(calls) ==
    /\ pc \in {"idle", "direct_returned"}
    /\ caller' = "direct"
    /\ tool_calls' = calls
    /\ finished' = << >>
    /\ IF calls = << >>
       THEN /\ results' = << >>
            /\ pc' = "direct_returned"
            /\ UNCHANGED <<rounds, mode, slots>>
       ELSE /\ rounds < MaxRounds
            /\ rounds' = rounds + 1
            /\ mode' = IF RunsSequentially(calls) THEN "sequential" ELSE "parallel"
            /\ slots' = Prepare(calls)
            /\ pc' = "exec"
            /\ UNCHANGED results
    /\ UNCHANGED <<Components, config, history, iteration, no_tool_count, full_response,
                   tool_cache, last_call, telemetry, last_tool_name, data_tool_calls, events,
                   llm_count, ret, gate>>

----------------------------------------------------------------------------
(* The message list of one iteration: monologue steps 3 and 4.  The list is *)
(* composed from the system prompt and the history, handed to the           *)
(* before_llm_call hook, and replaced by what the hook returns unless that  *)
(* is None.                                                                 *)

MaxKept == 1

SystemMsg == [role |-> "system", content |-> Bare(Msg("text", "", "system_prompt", 0))]

SummaryMsg == [role |-> "system", content |-> Bare(Msg("text", "", "summary", 0))]

NoList == [is_none |-> TRUE, list |-> << >>]

SomeList(list) == [is_none |-> FALSE, list |-> list]

\* no iteration has composed a message list yet
NoRequest == [previous |-> << >>, composed |-> << >>, modified |-> NoList, messages |-> << >>]

\* the list of the iteration before, carried over instead of composed anew
Compose_from_previous(hist, previous) ==
    IF Len(previous) > 0 THEN previous ELSE <<SystemMsg>> \o hist

\* messages = [system prompt] + one new dict per message of self.history
Compose(hist, previous) ==
    <<SystemMsg>> \o [i \in 1..Len(hist) |-> [role |-> hist[i].role, content |-> hist[i].content]]

\* MessageTrimmerExtension.on_before_llm_call when it trims: the system
\* prompt, a summary of the old messages and the keep most recent messages
Trimmed(composed, keep) ==
    LET history_msgs == Tail(composed)
    IN  <<composed[1], SummaryMsg>>
            \o SubSeq(history_msgs, Len(history_msgs) - keep + 1, Len(history_msgs))

\* what the hook may hand back: None, an empty list, or a list trimmed to
\* fewer recent messages than the history holds
HookReturns(composed) ==
    {NoList, SomeList(<< >>)}
        \cup {SomeList(Trimmed(composed, keep)) :
                 keep \in {k \in 0..MaxKept : k < Len(composed) - 1}}

\* the start of an iteration together with the message list it sends
BeforeLLMCall(modified) ==
    /\ IterationBegin
    /\ LET composed == Compose(history, request.messages)
       IN  request' = [previous |-> request.messages,
                       composed |-> composed,
                       modified |-> modified,
                       messages |-> IF modified.is_none THEN composed ELSE modified.list]

----------------------------------------------------------------------------
(* The agents of a context: AgentContext.create_agent and                   *)
(* CallSubordinateTool.execute.  Each entry of context.agents is an agent   *)
(* with its history, its position and the number of its call_subordinate   *)
(* calls that were rejected; serial tells the agent objects apart.          *)

MaxAgents == 4

MaxHistory == 2

MaxRejected == 1

\* the task argument: missing, blank or a task
Tasks == {"", " ", "t"}

\* the roles append_message is called with after the user message: one of
\* the loop's, and one that is none of the three
Roles == {"assistant", "tool"}

\* task.strip()
Strip(task) == IF task = " " THEN "" ELSE task

\* context.data["session_history"] of a resumed session, none for a new one
SessionHistories == {<< >>, <<[role |-> "user", content |-> "old"]>>}

\* context.agents before the first create_agent
NoAgents == << >>

\* Agent.__init__ as create_agent calls it, and the stored history that
\* agent 0 of a resumed session gets
create_agent(table, agent_id, parent, session_history) ==
    LET agent == [parent |-> parent,
                  history |-> IF agent_id = 0 THEN session_history ELSE << >>,
                  pc |-> "created",
                  rejected |-> 0,
                  serial |-> Cardinality(DOMAIN table)]
    IN  [id \in DOMAIN table \cup {agent_id} |->
           IF id = agent_id THEN agent ELSE table[id]]

\* an id derived from the caller's own id
next_id_of_caller(table, caller_id) == caller_id + 1

\* next_id = max(self.agent.context.agents.keys(), default=-1) + 1
next_id(table, caller_id) ==
    IF DOMAIN table = {} THEN 0
    ELSE (CHOOSE id \in DOMAIN table : \A other \in DOMAIN table : other <= id) + 1

\* the agent awaits no subordinate
NoneRunning(a) ==
    \A id \in DOMAIN agents :
        agents[id].parent = a => agents[id].pc \in {"returned", "failed"}

\* call_subordinate without a task: the error response, no agent
CallWithoutTask(a, task) ==
    /\ a \in DOMAIN agents
    /\ agents[a].pc = "monologue"
    /\ Strip(task) = ""
    /\ agents[a].rejected < MaxRejected
    /\ agents' = [agents EXCEPT ![a].rejected = @ + 1]

\* call_subordinate with a task, up to the await of the subordinate's monologue
CallSubordinate(a, task) ==
    /\ a \in DOMAIN agents
    /\ agents[a].pc = "monologue"
    /\ Strip(task) # ""
    /\ Cardinality(DOMAIN agents) < MaxAgents
    /\ agents' = create_agent(agents, next_id(agents, a), a, << >>)

\* monologue(task) of a subordinate begins
SubordinateStarts(a) ==
    /\ a \in DOMAIN agents
    /\ agents[a].pc = "created"
    /\ agents' = [agents EXCEPT ![a].pc = "monologue",
                                ![a].history = append_message(@, "user", "user")]

\* append_message(role, content) on agent a, which awaits no tool; the
\* content names the role the caller asked for
AgentAppends(a, role) ==
    /\ a \in DOMAIN agents
    /\ agents[a].pc = "monologue"
    /\ NoneRunning(a)
    /\ Len(agents[a].history) < MaxHistory
    /\ agents' = [agents EXCEPT ![a].history = append_message(@, role, role)]

\* the monologue of the subordinate returns its result to the caller
SubordinateReturns(a) ==
    /\ a \in DOMAIN agents
    /\ agents[a].pc = "monologue"
    /\ agents[a].parent # None
    /\ NoneRunning(a)
    /\ agents' = [agents EXCEPT ![a].pc = "returned"]

\* the monologue of the subordinate raises: except Exception
SubordinateFails(a) ==
    /\ a \in DOMAIN agents
    /\ agents[a].pc = "monologue"
    /\ agents[a].parent # None
    /\ NoneRunning(a)
    /\ agents' = [agents EXCEPT ![a].pc = "failed"]

----------------------------------------------------------------------------
(* The specification *)

DefaultTimeout == 1000

MemoryTimeout == 10

MemoryTimeouts == [n \in {"memory"} |-> MemoryTimeout]

NewTelemetry(enabled) ==
    [enabled |-> enabled, llm_calls |-> << >>, tool_calls |-> << >>,
     loop_iterations |-> << >>, final_tool |-> ""]

----------------------------------------------------------------------------
(* The tool cache of a context: Agent._get_tool_cache and the cache part of *)
(* _execute_tool_with_instance, for several contexts with several agents    *)
(* each.  writer remembers which agent's call inserted an entry.            *)

MaxContexts == 2

MaxSubordinates == 1

ContextIds == 1..MaxContexts

AgentIds == 0..MaxSubordinates

ToolOutputs == {"x", "y"}

NoContextCall ==
    [context |-> 0, agent |-> 0, tc |-> ToolCall("", Absent, Absent),
     key |-> << >>, response |-> NoResponse, cached |-> FALSE]

\* no context has been created
NoContexts ==
    [enabled |-> << >>, data |-> << >>, writer |-> << >>, call |-> NoContextCall]

\* one cache for the whole process, whatever the context
CacheOwner_global(c, a) == 1

\* self.context.data: the dict of the agent's own context, whichever agent
CacheOwner(c, a) == c

\* _execute_tool_with_instance of agent a of context c, the tool returning out
ContextCall(c, a, tc, out) ==
    LET owner == CacheOwner(c, a)
        cache == contexts.data[owner]
        key == _tool_cache_key(tc)
        can_cache == contexts.enabled[c] /\ should_cache(tc.name, tc.args)
    IN  IF can_cache /\ key \in DOMAIN cache
        THEN contexts' = [contexts EXCEPT !.call =
                            [context |-> c, agent |-> a, tc |-> tc, key |-> key,
                             response |-> CachedResponse(cache[key]),
                             cached |-> TRUE]]
        ELSE LET response == Response(Msg("output", tc.name, out, 0), FALSE)
             IN  contexts' = [contexts EXCEPT
                    !.data[owner] = CacheInsert(cache, can_cache, key, response),
                    !.writer[owner] = IF can_cache THEN CachePut(@, key, a) ELSE @,
                    !.call = [context |-> c, agent |-> a, tc |-> tc, key |-> key,
                              response |-> response, cached |-> FALSE]]

----------------------------------------------------------------------------
(* The SessionStore (agent/session_store.py): the sessions table, the       *)
(* number of rows of messages and tool_calls per session id, and the clock  *)
(* _now() reads.  Timestamps are whole seconds.                             *)

MaxClock == 2

MaxRows == 1

SessionIds == {"s1", "s2", "s3"}

MaxSessions == {0, 1, 2}

NoStoreCall == [op |-> "none", session_id |-> "", timestamp |-> 0, raised |-> FALSE]

\* no store has been opened
NoDb ==
    [max_sessions |-> 0, sessions |-> << >>, messages |-> << >>,
     tool_calls |-> << >>, now |-> 0, last |-> NoStoreCall]

Row(created_at, updated_at) == [created_at |-> created_at, updated_at |-> updated_at]

\* INSERT or UPDATE of one row of sessions
PutRow(sessions, id, row) ==
    [k \in DOMAIN sessions \cup {id} |-> IF k = id THEN row ELSE sessions[k]]

\* an order by the time of creation alone
OlderFirst_created(a, b) == a.created_at <= b.created_at

\* ORDER BY updated_at ASC, created_at ASC: a may come before b
OlderFirst(a, b) ==
    \/ a.updated_at < b.updated_at
    \/ a.updated_at = b.updated_at /\ a.created_at <= b.created_at

\* the sets of rows the SELECT of _prune_sessions may return: the first
\* excess rows of the order, rows that compare equal coming in any order
PruneChoices(sessions, max_sessions) ==
    LET total == Cardinality(DOMAIN sessions)
    IN  IF max_sessions <= 0 \/ total <= max_sessions
        THEN {{}}
        ELSE {R \in SUBSET DOMAIN sessions :
                /\ Cardinality(R) = total - max_sessions
                /\ \A r \in R, k \in DOMAIN sessions \ R :
                      OlderFirst(sessions[r], sessions[k])}

\* DELETE FROM sessions for each selected row, with ON DELETE CASCADE
DeleteRows(d, R) ==
    [d EXCEPT !.sessions = [k \in DOMAIN d.sessions \ R |-> d.sessions[k]],
              !.messages = [k \in DOMAIN @ |-> IF k \in R THEN 0 ELSE @[k]],
              !.tool_calls = [k \in DOMAIN @ |-> IF k \in R THEN 0 ELSE @[k]]]

\* created_at or self._now()
Timestamp(created_at) == IF created_at = None THEN db.now ELSE created_at

StoreCall(op, id, timestamp, raised) ==
    [op |-> op, session_id |-> id, timestamp |-> timestamp, raised |-> raised]

\* SessionStore.ensure_session
EnsureSession(id) ==
    LET row == IF id \in DOMAIN db.sessions
               THEN [db.sessions[id] EXCEPT !.updated_at = db.now]
               ELSE Row(db.now, db.now)
        written == [db EXCEPT !.sessions = PutRow(@, id, row),
                              !.last = StoreCall("ensure_session", id, db.now, FALSE)]
    IN  \E R \in PruneChoices(written.sessions, db.max_sessions) :
           db' = DeleteRows(written, R)

\* SessionStore.save_message and save_tool_call, which write to the table
\* messages or tool_calls: the INSERT fails on the foreign key when the
\* session is gone, the transaction is rolled back and the call raises
SaveRow(op, table, id, created_at) ==
    LET timestamp == Timestamp(created_at)
    IN  IF id \notin DOMAIN db.sessions
        THEN db' = [db EXCEPT !.last = StoreCall(op, id, timestamp, TRUE)]
        ELSE /\ db[table][id] < MaxRows
             /\ LET written == [db EXCEPT
                        ![table][id] = @ + 1,
                        !.sessions[id].updated_at = timestamp,
                        !.last = StoreCall(op, id, timestamp, FALSE)]
                IN  \E R \in PruneChoices(written.sessions, db.max_sessions) :
                       db' = DeleteRows(written, R)

SaveMessage(id, created_at) == SaveRow("save_message", "messages", id, created_at)

SaveToolCall(id, created_at) == SaveRow("save_tool_call", "tool_calls", id, created_at)

\* a second passes
ClockTicks ==
    /\ db.now < MaxClock
    /\ db' = [db EXCEPT !.now = @ + 1]

----------------------------------------------------------------------------
(* The web app (web/routes/chat.py, web/app.py): one SessionState that is   *)
(* in the sessions dict, and the /chat/send requests for it, each handled   *)
(* on a thread of its own (run_web.py: threaded=True).  A request is at     *)
(* "new", has read is_running ("checked"), or was answered (409 or 200);    *)
(* threads holds the requests whose monologue thread runs.                  *)

MaxRequests == 3

RequestIds == 1..MaxRequests

\* no web session exists
NoWeb == [is_running |-> FALSE, requests |-> << >>, threads |-> {}, finished |-> {}]

\* send_message up to the test: if session.is_running: return 409
RequestChecks(r) ==
    /\ web.requests[r] = "new"
    /\ web' = [web EXCEPT !.requests[r] = IF web.is_running THEN "409" ELSE "checked"]

\* SessionState.send_message: is_running = True, thread.start(), then 200
RequestStarts(r) ==
    /\ web.requests[r] = "checked"
    /\ web' = [web EXCEPT !.requests[r] = "200",
                          !.is_running = TRUE,
                          !.threads = @ \cup {r}]

\* run_in_thread ends, with a result or an exception: finally is_running = False
ThreadEnds(r) ==
    /\ r \in web.threads
    /\ web' = [web EXCEPT !.is_running = FALSE,
                          !.threads = @ \ {r},
                          !.finished = @ \cup {r}]

----------------------------------------------------------------------------
(* OllamaClient.chat (agent/models.py) with stream=True: the while loop     *)
(* around one POST /api/chat per pass.  posts counts the requests sent,     *)
(* lines the lines read from the current response, and yielded holds the    *)
(* numbers of the requests whose chunks the consumer received.              *)

MaxRetries == 3

MaxPosts == 4

MaxLines == 2

\* ollama.max_retries is at least 1 (config.py: _coerce_int with minimum 1)
RetryLimits == 1..MaxRetries

HTTPStatuses == {200, 404, 500}

\* a line of the response: a chunk of content, the last chunk with done set,
\* or a line without message content (blank, not JSON, or an error object)
LineKinds == {"chunk", "done", "other"}

\* chat has not been called
NoClient ==
    [max_retries |-> 0, pc |-> "idle", attempt |-> 0, received_any |-> FALSE,
     posts |-> 0, lines |-> 0, yielded |-> {}]

\* the top of the while loop: received_any = False and a new POST
NextPass(c) ==
    [c EXCEPT !.received_any = FALSE, !.posts = @ + 1, !.lines = 0, !.pc = "posted"]

\* the generator is started: attempt = 0 and the first pass of the loop
Chat ==
    /\ client.pc = "idle"
    /\ client' = NextPass([client EXCEPT !.attempt = 0])

\* the response arrives: 404 raises OllamaModelError and any other status but
\* 200 raises OllamaConnectionError, neither of which the except clause takes
ResponseArrives(status) ==
    /\ client.pc = "posted"
    /\ client' = [client EXCEPT !.pc = CASE status = 404 -> "model_error"
                                         [] status = 200 -> "streaming"
                                         [] OTHER -> "connection_error"]

\* a line is read from resp.content
LineArrives(kind) ==
    /\ client.pc = "streaming"
    /\ client.lines < MaxLines
    /\ client' = [client EXCEPT
            !.lines = @ + 1,
            !.received_any = @ \/ kind \in {"chunk", "done"},
            !.yielded = IF kind \in {"chunk", "done"} THEN @ \cup {client.posts} ELSE @,
            !.pc = IF kind = "done" THEN "returned" ELSE @]

\* aiohttp.ClientError or asyncio.TimeoutError while connecting or reading:
\* the except clause, then the sleep and the next pass
TransportError ==
    /\ client.pc \in {"posted", "streaming"}
    /\ LET attempt == client.attempt + 1
       IN  IF client.received_any \/ attempt >= client.max_retries
           THEN client' = [client EXCEPT !.attempt = attempt, !.pc = "connection_error"]
           ELSE /\ client.posts < MaxPosts
                /\ client' = NextPass([client EXCEPT !.attempt = attempt])

\* resp.content is exhausted and no line had done set: the try block ends
\* without return or exception, and while True goes round again
StreamEnds ==
    /\ client.pc = "streaming"
    /\ client.posts < MaxPosts
    /\ client' = NextPass(client)

ExtrasIdle ==
    /\ contexts = NoContexts
    /\ db = NoDb
    /\ web = NoWeb
    /\ client = NoClient

\* no service of the agent has been called
ServicesIdle ==
    /\ norm = NoNorm
    /\ router = NoRouter
    /\ registry = NoRegistry
    /\ agents = NoAgents
    /\ store = NoStore
    /\ request = NoRequest
    /\ ExtrasIdle

Init ==
    /\ config \in [max_monologue_iterations : {MaxIterCap},
                   cache_enabled : BOOLEAN,
                   default_timeout : {DefaultTimeout},
                   timeouts : {MemoryTimeouts}]
    /\ telemetry \in {NewTelemetry(e) : e \in BOOLEAN}
    /\ pc = "idle"
    /\ rounds = 0
    /\ history = << >>
    /\ iteration = 0
    /\ no_tool_count = 0
    /\ full_response = EmptyText
    /\ tool_calls = << >>
    /\ mode = "none"
    /\ slots = << >>
    /\ finished = << >>
    /\ results = << >>
    /\ tool_cache = [k \in {} |-> CacheEntry(NoResponse)]
    /\ last_call = [k \in {} |-> [response |-> NoResponse, cached |-> FALSE,
                                   nb |-> 0, ne |-> 0, na |-> 0]]
    /\ caller = "none"
    /\ last_tool_name = ""
    /\ data_tool_calls = << >>
    /\ events = << >>
    /\ llm_count = 0
    /\ ret = NoMsg
    /\ gate = [started |-> 0, event |-> FALSE]
    /\ extensions = << >>
    /\ dispatch = NoDispatch
    /\ parse = NoParse
    /\ ServicesIdle

ExecutorStep ==
    \/ \E k \in 1..Len(slots) : RunToolCall(k)
    \/ \E k \in 1..Len(slots) : CacheLookup(k)
    \/ \E k \in 1..Len(slots) : BeforeReturns(k)
    \/ \E k \in 1..Len(slots) : ExecuteReturns(k)
    \/ \E k \in 1..Len(slots) : AfterReturns(k)
    \/ \E k \in 1..Len(slots) : ToolRaises(k)
    \/ \E k \in 1..Len(slots) : ToolTimesOut(k)
    \/ \E k \in 1..Len(slots) : HookAfterReturns(k)
    \/ ExecutorReturns
    \/ ExecutorRaises

Next ==
    /\ \/ \E u \in UserMessages : Monologue(u)
       \/ IterationBegin
       \/ MaxIterationsReached
       \/ \E out \in LLMOutputs : LLMChunk(out)
       \/ \E kind \in LLMErrorKinds : LLMFails(kind)
       \/ LLMReturns
       \/ FoldResults
       \/ \E calls \in Batches(DirectCalls, 0) : DirectCall(calls)
       \/ ExecutorStep
    /\ UNCHANGED Attached

Spec == Init /\ [][Next]_vars

\* The gate test: a caller awaits _execute_tool_calls on batches of two calls
\* of ParallelGateTool, whose execute neither raises nor returns a non-string
GateBatches == {b \in Batches({TCGate}, 2) : Len(b) >= 2}

\* the steps of a task that the event loop runs whenever the task is runnable
TaskStep ==
    \/ \E k \in 1..Len(slots) : RunToolCall(k)
    \/ \E k \in 1..Len(slots) : CacheLookup(k)
    \/ \E k \in 1..Len(slots) : BeforeReturns(k)
    \/ \E k \in 1..Len(slots) : ExecuteReturns(k)
    \/ \E k \in 1..Len(slots) : AfterReturns(k)
    \/ \E k \in 1..Len(slots) : HookAfterReturns(k)
    \/ ExecutorReturns

NextGate ==
    /\ \/ \E calls \in GateBatches : DirectCall(calls)
       \/ TaskStep
       \/ \E k \in 1..Len(slots) : ToolTimesOut(k)
    /\ UNCHANGED Attached

\* the event loop runs a runnable task; a timeout is not bound to expire
SpecGate == Init /\ [][NextGate]_vars /\ WF_vars(TaskStep /\ UNCHANGED Attached)

\* One monologue long enough for two reminders, with an LLM that answers in
\* plain text, with nothing or with one memory search
ReminderIterCap == 10

ReminderOutputs == {Text("plain", << >>), Text("json", <<TCSearch>>)}

InitReminder ==
    /\ config \in [max_monologue_iterations : {ReminderIterCap},
                    cache_enabled : {TRUE},
                    default_timeout : {DefaultTimeout},
                    timeouts : {MemoryTimeouts}]
    /\ telemetry = NewTelemetry(FALSE)
    /\ pc = "idle"
    /\ rounds = 0
    /\ history = << >>
    /\ iteration = 0
    /\ no_tool_count = 0
    /\ full_response = EmptyText
    /\ tool_calls = << >>
    /\ mode = "none"
    /\ slots = << >>
    /\ finished = << >>
    /\ results = << >>
    /\ tool_cache = << >>
    /\ last_call = << >>
    /\ caller = "none"
    /\ last_tool_name = ""
    /\ data_tool_calls = << >>
    /\ events = << >>
    /\ llm_count = 0
    /\ ret = NoMsg
    /\ gate = [started |-> 0, event |-> FALSE]
    /\ extensions = << >>
    /\ dispatch = NoDispatch
    /\ parse = NoParse
    /\ ServicesIdle

NextReminder ==
    /\ \/ \E m \in UserMessages : Monologue(m)
       \/ IterationBegin
       \/ MaxIterationsReached
       \/ \E out \in ReminderOutputs : LLMChunk(out)
       \/ \E kind \in LLMErrorKinds : LLMFails(kind)
       \/ LLMReturns
       \/ FoldResults
       \/ \E k \in 1..Len(slots) : RunToolCall(k)
       \/ \E k \in 1..Len(slots) : CacheLookup(k)
       \/ \E k \in 1..Len(slots) : BeforeReturns(k)
       \/ \E k \in 1..Len(slots) : ExecuteReturns(k)
       \/ \E k \in 1..Len(slots) : AfterReturns(k)
       \/ \E k \in 1..Len(slots) : ToolTimesOut(k)
       \/ \E k \in 1..Len(slots) : HookAfterReturns(k)
       \/ ExecutorReturns
    /\ UNCHANGED Attached

SpecReminder == InitReminder /\ [][NextReminder]_vars

\* One dispatch over every list of up to MaxExtensions extensions
MaxExtensions == 3

ExtensionLists ==
    UNION {[1..n -> [enabled : BOOLEAN, handler : Handlers]] : n \in 0..MaxExtensions}

\* the agent of Init, before any monologue or executor call
AgentIdle ==
    /\ config \in [max_monologue_iterations : {MaxIterCap},
                    cache_enabled : {TRUE},
                    default_timeout : {DefaultTimeout},
                    timeouts : {MemoryTimeouts}]
    /\ telemetry = NewTelemetry(FALSE)
    /\ pc = "idle"
    /\ rounds = 0
    /\ history = << >>
    /\ iteration = 0
    /\ no_tool_count = 0
    /\ full_response = EmptyText
    /\ tool_calls = << >>
    /\ mode = "none"
    /\ slots = << >>
    /\ finished = << >>
    /\ results = << >>
    /\ tool_cache = << >>
    /\ last_call = << >>
    /\ caller = "none"
    /\ last_tool_name = ""
    /\ data_tool_calls = << >>
    /\ events = << >>
    /\ llm_count = 0
    /\ ret = NoMsg
    /\ gate = [started |-> 0, event |-> FALSE]

AgentVars == <<config, pc, rounds, history, iteration, no_tool_count, full_response,
               tool_calls, mode, slots, finished, results, tool_cache, last_call,
               telemetry, caller, last_tool_name, data_tool_calls, events,
               llm_count, ret, gate>>

InitDispatch ==
    /\ AgentIdle
    /\ extensions \in ExtensionLists
    /\ dispatch = NoDispatch
    /\ parse = NoParse
    /\ ServicesIdle

NextDispatch ==
    /\ \/ DispatchBegin
       \/ DispatchSkips
       \/ DispatchAwaits
       \/ HandlerReturns
       \/ HandlerRaises
       \/ DispatchReturns
    /\ UNCHANGED <<AgentVars, extensions, parse, Services, Attached>>

SpecDispatch == InitDispatch /\ [][NextDispatch]_vars

\* One call of extract_tool_calls on every text of up to MaxBlocks blocks with
\* arrays of up to MaxItems items
MaxBlocks == 2

MaxItems == 2

Blocks ==
    {[fenced |-> f, array |-> FALSE, syntax |-> "broken", items |-> << >>] :
        f \in BOOLEAN}
    \cup [fenced : BOOLEAN, array : {FALSE}, syntax : {"json", "single_quoted"},
          items : [1..1 -> Items]]
    \cup [fenced : BOOLEAN, array : {TRUE}, syntax : {"json", "single_quoted"},
          items : UNION {[1..n -> Items] : n \in 1..MaxItems}]

Texts == UNION {[1..n -> Blocks] : n \in 0..MaxBlocks}

InitParse ==
    /\ AgentIdle
    /\ extensions = << >>
    /\ dispatch = NoDispatch
    /\ parse = NoParse
    /\ ServicesIdle

NextParse ==
    /\ \/ parse.pc = "idle" /\ \E raw_text \in Texts : ExtractToolCalls(raw_text)
       \/ StrategyStep
       \/ ExtractFails
    /\ UNCHANGED <<AgentVars, extensions, dispatch, Services, Attached>>

SpecParse == InitParse /\ [][NextParse]_vars

\* One payload through _normalize_payload and _validate_tool_call, for every
\* written name and every argument object of up to MaxArgs keys
InitNormalize ==
    /\ AgentIdle
    /\ extensions = << >>
    /\ dispatch = NoDispatch
    /\ parse = NoParse
    /\ store = NoStore
    /\ request = NoRequest
    /\ ExtrasIdle
    /\ agents = NoAgents
    /\ norm = NoNorm
    /\ router = NoRouter
    /\ registry = NoRegistry

NextNormalize ==
    /\ \/ norm.pc = "idle" /\ \E name \in WrittenNames, args \in ArgMaps :
                                 NormalizeBegin([name |-> name, args |-> args])
       \/ NormalizePayload
       \/ ValidateToolCall
    /\ UNCHANGED <<AgentVars, extensions, dispatch, parse, router, registry, agents, Attached>>

SpecNormalize == InitNormalize /\ [][NextNormalize]_vars

\* One select_model call on every router configuration, model list, message
\* list of up to MaxMessages messages and last tool name
InitRouter ==
    /\ AgentIdle
    /\ extensions = << >>
    /\ dispatch = NoDispatch
    /\ parse = NoParse
    /\ store = NoStore
    /\ request = NoRequest
    /\ ExtrasIdle
    /\ agents = NoAgents
    /\ norm = NoNorm
    /\ registry = NoRegistry
    /\ \E enabled \in BOOLEAN, routes \in RouteTables,
          tool_affinity \in AffinityTables,
          available \in {NotLoaded} \cup {Loaded(names) : names \in SUBSET ListedModels} :
          router = [NoRouter EXCEPT !.enabled = enabled, !.routes = routes,
                                    !.tool_affinity = tool_affinity,
                                    !._available_models = available]

NextRouter ==
    /\ router.pc = "idle"
    /\ \E messages \in RouterMessages, tool_name \in LastToolNames :
          \/ SelectModelDisabled(messages, tool_name)
          \/ SelectModel(messages, tool_name)
    /\ UNCHANGED <<AgentVars, extensions, dispatch, parse, norm, registry, agents, Attached>>

SpecRouter == InitRouter /\ [][NextRouter]_vars

\* Tool discovery after the scan of the tools directory, for every pair of
\* tool lists of up to MaxTools tools
InitRegistry ==
    /\ AgentIdle
    /\ extensions = << >>
    /\ dispatch = NoDispatch
    /\ parse = NoParse
    /\ store = NoStore
    /\ request = NoRequest
    /\ ExtrasIdle
    /\ agents = NoAgents
    /\ norm = NoNorm
    /\ router = NoRouter
    /\ \E enabled \in BOOLEAN, lists \in [1..Len(Servers) -> ToolLists] :
          registry = [NoRegistry EXCEPT
                        !.pc = "builtins", !.enabled = enabled, !.lists = lists,
                        !._tool_classes = [n \in BuiltinNames |-> BuiltinTool(n)]]

NextRegistry ==
    /\ \/ RegisterMCPDisabled
       \/ BridgeDiscovers
       \/ BridgeAddsTool
       \/ BridgeNextServer
       \/ ServerFails
       \/ BridgeReturns
       \/ RegisterCollision
       \/ RegisterTool
       \/ RegisterReturns
    /\ UNCHANGED <<AgentVars, extensions, dispatch, parse, norm, router, agents, Attached>>

SpecRegistry == InitRegistry /\ [][NextRegistry]_vars

\* One monologue with the session store attached, every call of which may
\* raise; the LLM answers in plain text, with a memory search, with a search
\* and a save, or with the final response
StoreOutputs ==
    {Text("plain", << >>), Text("json", <<TCSearch>>),
     Text("json", <<TCSearch, TCSave>>), Text("json", <<TCResponse>>)}

StoreCalls(ops, n) == SUBSET (ops \X (1..n))

NextStore ==
    /\ \/ \E u \in UserMessages, failing \in StoreCalls({"save_message", "set_title"}, 1) :
             StoreStep(Monologue(u), 0, failing)
       \/ IterationBegin /\ UNCHANGED store
       \/ MaxIterationsReached /\ UNCHANGED store
       \/ (\E out \in StoreOutputs : LLMChunk(out)) /\ UNCHANGED store
       \/ \E kind \in LLMErrorKinds, failing \in StoreCalls({"save_message"}, 1) :
             StoreStep(LLMFails(kind), 0, failing)
       \/ \E failing \in StoreCalls({"increment_token_counts", "save_message"}, 1) :
             StoreStep(LLMReturns, 1, failing)
       \/ \E failing \in StoreCalls({"save_tool_call", "save_message"}, MaxBatch) :
             StoreStep(FoldResults, 0, failing)
       \/ (\E k \in 1..Len(slots) : RunToolCall(k)) /\ UNCHANGED store
       \/ (\E k \in 1..Len(slots) : CacheLookup(k)) /\ UNCHANGED store
       \/ (\E k \in 1..Len(slots) : BeforeReturns(k)) /\ UNCHANGED store
       \/ (\E k \in 1..Len(slots) : ExecuteReturns(k)) /\ UNCHANGED store
       \/ (\E k \in 1..Len(slots) : AfterReturns(k)) /\ UNCHANGED store
       \/ (\E k \in 1..Len(slots) : ToolTimesOut(k)) /\ UNCHANGED store
       \/ (\E k \in 1..Len(slots) : HookAfterReturns(k)) /\ UNCHANGED store
       \/ ExecutorReturns /\ UNCHANGED store
    /\ UNCHANGED <<request, Extras>>

SpecStore == Init /\ [][NextStore]_vars

\* One monologue whose before_llm_call hook may replace the message list
NextRequest ==
    /\ \/ (\E u \in UserMessages : Monologue(u)) /\ UNCHANGED request
       \/ \E modified \in HookReturns(Compose(history, request.messages)) :
             BeforeLLMCall(modified)
       \/ MaxIterationsReached /\ UNCHANGED request
       \/ (\E out \in StoreOutputs : LLMChunk(out)) /\ UNCHANGED request
       \/ (\E kind \in LLMErrorKinds : LLMFails(kind)) /\ UNCHANGED request
       \/ LLMReturns /\ UNCHANGED request
       \/ FoldResults /\ UNCHANGED request
       \/ (\E k \in 1..Len(slots) : RunToolCall(k)) /\ UNCHANGED request
       \/ (\E k \in 1..Len(slots) : CacheLookup(k)) /\ UNCHANGED request
       \/ (\E k \in 1..Len(slots) : BeforeReturns(k)) /\ UNCHANGED request
       \/ (\E k \in 1..Len(slots) : ExecuteReturns(k)) /\ UNCHANGED request
       \/ (\E k \in 1..Len(slots) : AfterReturns(k)) /\ UNCHANGED request
       \/ (\E k \in 1..Len(slots) : ToolTimesOut(k)) /\ UNCHANGED request
       \/ (\E k \in 1..Len(slots) : HookAfterReturns(k)) /\ UNCHANGED request
       \/ ExecutorReturns /\ UNCHANGED request
    /\ UNCHANGED <<store, Extras>>

SpecRequest == Init /\ [][NextRequest]_vars

\* The hierarchy under agent 0 of a new or a resumed session, whose monologue
\* is under way: up to MaxAgents agents with histories of up to MaxHistory
\* messages; several call_subordinate calls of one agent run at once
InitAgents ==
    /\ AgentIdle
    /\ extensions = << >>
    /\ dispatch = NoDispatch
    /\ parse = NoParse
    /\ store = NoStore
    /\ request = NoRequest
    /\ ExtrasIdle
    /\ norm = NoNorm
    /\ router = NoRouter
    /\ registry = NoRegistry
    /\ \E session_history \in SessionHistories :
          agents = [create_agent(NoAgents, 0, None, session_history)
                       EXCEPT ![0].pc = "monologue"]

NextAgents ==
    /\ \/ \E a \in DOMAIN agents, task \in Tasks : CallWithoutTask(a, task)
       \/ \E a \in DOMAIN agents, task \in Tasks : CallSubordinate(a, task)
       \/ \E a \in DOMAIN agents : SubordinateStarts(a)
       \/ \E a \in DOMAIN agents, role \in Roles : AgentAppends(a, role)
       \/ \E a \in DOMAIN agents : SubordinateReturns(a)
       \/ \E a \in DOMAIN agents : SubordinateFails(a)
    /\ UNCHANGED <<AgentVars, extensions, dispatch, parse, norm, router, registry, Attached>>

SpecAgents == InitAgents /\ [][NextAgents]_vars

\* everything but the components beside the context is idle
OthersIdle ==
    /\ AgentIdle
    /\ extensions = << >>
    /\ dispatch = NoDispatch
    /\ parse = NoParse
    /\ norm = NoNorm
    /\ router = NoRouter
    /\ registry = NoRegistry
    /\ agents = NoAgents
    /\ store = NoStore
    /\ request = NoRequest

OtherVars == <<AgentVars, Components, store, request>>

\* MaxContexts contexts, with caching on or off, whose agents call a memory
\* search, a memory save and a plugin tool
ContextCalls == {TCSearch, TCSave, TCPlugin}

InitContexts ==
    /\ OthersIdle
    /\ db = NoDb
    /\ web = NoWeb
    /\ client = NoClient
    /\ \E enabled \in [ContextIds -> BOOLEAN] :
          contexts = [enabled |-> enabled,
                      data |-> [c \in ContextIds |-> << >>],
                      writer |-> [c \in ContextIds |-> << >>],
                      call |-> NoContextCall]

NextContexts ==
    /\ \E c \in ContextIds, a \in AgentIds, tc \in ContextCalls, out \in ToolOutputs :
          ContextCall(c, a, tc, out)
    /\ UNCHANGED <<OtherVars, db, web, client>>

SpecContexts == InitContexts /\ [][NextContexts]_vars

\* A store opened on a new file, or on the file of an earlier run that was
\* allowed more sessions, with every value of max_sessions
EarlierSessions ==
    [s \in SessionIds |->
        CASE s = "s1" -> Row(0, 1)
          [] s = "s2" -> Row(0, 0)
          [] s = "s3" -> Row(1, 1)]

InitSessions ==
    /\ OthersIdle
    /\ contexts = NoContexts
    /\ web = NoWeb
    /\ client = NoClient
    /\ \E max_sessions \in MaxSessions, sessions \in {<< >>, EarlierSessions} :
          db = [max_sessions |-> max_sessions,
                sessions |-> sessions,
                messages |-> [s \in SessionIds |-> 0],
                tool_calls |-> [s \in SessionIds |-> 0],
                now |-> IF sessions = << >> THEN 0 ELSE 1,
                last |-> NoStoreCall]

NextSessions ==
    /\ \/ \E id \in SessionIds : EnsureSession(id)
       \/ \E id \in SessionIds, created_at \in {None} \cup 0..MaxClock :
             SaveMessage(id, created_at)
       \/ \E id \in SessionIds, created_at \in {None} \cup 0..MaxClock :
             SaveToolCall(id, created_at)
       \/ ClockTicks
    /\ UNCHANGED <<OtherVars, contexts, web, client>>

SpecSessions == InitSessions /\ [][NextSessions]_vars

\* MaxRequests requests for one session of the web app, handled concurrently
InitWeb ==
    /\ OthersIdle
    /\ contexts = NoContexts
    /\ db = NoDb
    /\ client = NoClient
    /\ web = [is_running |-> FALSE,
              requests |-> [r \in RequestIds |-> "new"],
              threads |-> {},
              finished |-> {}]

NextWeb ==
    /\ \/ \E r \in RequestIds : RequestChecks(r)
       \/ \E r \in RequestIds : RequestStarts(r)
       \/ \E r \in RequestIds : ThreadEnds(r)
    /\ UNCHANGED <<OtherVars, contexts, db, client>>

SpecWeb == InitWeb /\ [][NextWeb]_vars

\* one call of chat for every ollama.max_retries up to MaxRetries
InitClient ==
    /\ OthersIdle
    /\ contexts = NoContexts
    /\ db = NoDb
    /\ web = NoWeb
    /\ \E max_retries \in RetryLimits :
          client = [NoClient EXCEPT !.max_retries = max_retries]

NextClient ==
    /\ \/ Chat
       \/ \E status \in HTTPStatuses : ResponseArrives(status)
       \/ \E kind \in LineKinds : LineArrives(kind)
       \/ TransportError
       \/ StreamEnds
    /\ UNCHANGED <<OtherVars, contexts, db, web>>

SpecClient == InitClient /\ [][NextClient]_vars

\* Timeout resolution over its three inputs: one call whose tool was looked
\* up and whose tool_execute_before hook returned, for every configuration of
\* per-tool entries, tool attribute and default (in ms)
TimeoutEntries == {10, 500}

ToolTimeouts == {None, 20, 200}

DefaultTimeouts == {1000, 30000}

TimeoutMaps ==
    UNION {[D -> TimeoutEntries] : D \in SUBSET {"memory", "plugin"}}

InitTimeout ==
    /\ config \in [max_monologue_iterations : {MaxIterCap},
                    cache_enabled : BOOLEAN,
                    default_timeout : DefaultTimeouts,
                    timeouts : TimeoutMaps]
    /\ pc = "exec"
    /\ rounds = 1
    /\ history = << >>
    /\ iteration = 0
    /\ no_tool_count = 0
    /\ full_response = EmptyText
    /\ \E tc \in {TCSearch, TCPlugin, TCResponse} : \E t \in ToolTimeouts :
          /\ tool_calls = <<tc>>
          /\ slots = <<[NewSlot(tc, "hook_before") EXCEPT !.hb = 1,
                                                          !.tool_timeout = t]>>
    /\ mode = "sequential"
    /\ finished = << >>
    /\ results = << >>
    /\ tool_cache = << >>
    /\ last_call = << >>
    /\ telemetry = NewTelemetry(FALSE)
    /\ caller = "direct"
    /\ last_tool_name = ""
    /\ data_tool_calls = << >>
    /\ events = << >>
    /\ llm_count = 0
    /\ ret = NoMsg
    /\ gate = [started |-> 0, event |-> FALSE]
    /\ extensions = << >>
    /\ dispatch = NoDispatch
    /\ parse = NoParse
    /\ ServicesIdle

NextTimeout == CacheLookup(1) /\ UNCHANGED Attached

SpecTimeout == InitTimeout /\ [][NextTimeout]_vars

TypeOK ==
    /\ pc \in {"idle", "loop", "llm", "exec", "fold", "returned", "direct_returned",
              "raised", "direct_raised"}
    /\ iteration \in 0..MaxIterCap
    /\ Len(slots) <= MaxBatch

----------------------------------------------------------------------------
(* Claims about the monologue loop *)

LastEntry == history[Len(history)]

\* the monologue ended in an except branch of the LLM step
EndedByLLMError ==
    /\ history # << >>
    /\ LastEntry.role = "assistant"
    /\ LastEntry.content.kind = "bare"
    /\ LastEntry.content.msg.kind \in LLMErrorKinds

\* the monologue ended in an iteration whose batch had a break_loop result
EndedByBreak ==
    /\ history # << >>
    /\ LastEntry.content.kind = "tool_result"
    /\ \E k \in 1..Len(results) : results[k].response.break_loop

LastEvents(n) == SubSeq(events, Len(events) - n + 1, Len(events))

\* The part of C1 that holds: at most max_monologue_iterations iterations with
\* one LLM call each, and a monologue that returns at the cap without a
\* break_loop result or an LLM error dispatches monologue_end with the
\* fallback, finalizes with "max_iterations" and returns the fallback.
IterationCap ==
    /\ iteration <= config.max_monologue_iterations
    /\ llm_count = iteration
    /\ (pc = "returned" /\ ~EndedByLLMError /\ ~EndedByBreak) =>
          /\ ret = FallbackMsg
          /\ iteration = config.max_monologue_iterations
          /\ Len(events) >= 2
          /\ LastEvents(2) = <<Event("monologue_end", FallbackMsg),
                                Event("finalize", Msg("text", "", "max_iterations", 0))>>
          /\ telemetry.enabled => telemetry.final_tool = "max_iterations"

\* C1: for any sequence of model outputs and tool results a monologue makes at
\* most max_monologue_iterations iterations (one LLM call each) and then
\* returns, with the fallback, monologue_end and finalize("max_iterations")
\* when the cap is reached without a break_loop result or an LLM error: it
\* never ends by raising.
C1_MonologueReturns ==
    /\ IterationCap
    /\ pc # "raised"

AssistantEntry(text) ==
    [role |-> "assistant", content |-> Content("llm_text", "", NoMsg, text)]

ToolResultEntry(name, message) ==
    [role |-> "system", content |-> ToolResultContent(name, message)]

\* the tool-result messages of a batch, for calls and the response of each
ExpectedToolMessages(calls, sl) ==
    [k \in 1..Len(calls) |-> ToolResultEntry(calls[k].name, sl[k].response.message)]

\* C2: every iteration whose parse yields N >= 1 calls appends the assistant
\* message when the stream ends, nothing while the batch runs, and then the N
\* system messages "[Tool 'name_k' result]: message_k", k-th for the k-th
\* parsed call and the response that call produced, break_loop or not: the
\* batch is always followed by the fold of its N results.
C2_HistoryPerIteration ==
    [][ /\ (pc = "llm" /\ pc' = "exec") =>
              /\ tool_calls' = _extract_tools(full_response)
              /\ history' = Append(history, AssistantEntry(full_response))
        /\ (pc = "exec" /\ caller = "monologue") =>
              /\ history' = history
              /\ pc' \in {"exec", "fold"}
        /\ pc = "fold" =>
              history' = history \o ExpectedToolMessages(tool_calls, slots)
      ]_vars

----------------------------------------------------------------------------
(* Claims about the executor *)

ExecutorReturned == pc \in {"fold", "direct_returned"}

\* C3: the list _execute_tool_calls returns is as long as calls and its k-th
\* entry holds calls[k] and the response and cached flag of the k-th task.
C3_ResultsInInputOrder ==
    ExecutorReturned =>
        /\ Len(results) = Len(tool_calls)
        /\ \A k \in 1..Len(tool_calls) :
              /\ results[k].tool_call = tool_calls[k]
              /\ results[k].response = slots[k].response
              /\ results[k].cached = slots[k].cached

\* a parallel batch of two different calls returned after its second call
\* completed first
C3_Witness ==
    /\ pc = "direct_returned"
    /\ mode = "parallel"
    /\ Len(results) = 2
    /\ results[1].tool_call # results[2].tool_call
    /\ results[1].response # results[2].response
    /\ telemetry.enabled
    /\ Len(telemetry.tool_calls) = 2
    /\ telemetry.tool_calls[1].tool_name = tool_calls[2].name
    /\ telemetry.tool_calls[2].tool_name = tool_calls[1].name

BreakIndices == {k \in 1..Len(results) : results[k].response.break_loop}

FirstBreak == CHOOSE k \in BreakIndices : \A j \in BreakIndices : k <= j

\* C4: when a batch has break_loop results the monologue ends in that
\* iteration with the message of the first of them in input order, dispatches
\* monologue_end with it and finalizes telemetry with that call's tool name;
\* when it has none the loop goes on.
C4_BreakLoopEnds ==
    [][ pc = "fold" =>
          IF BreakIndices # {}
          THEN /\ pc' = "returned"
               /\ ret' = results[FirstBreak].response.message
               /\ events' = events \o
                    <<Event("monologue_end", results[FirstBreak].response.message),
                      Event("finalize",
                            Msg("text", "", results[FirstBreak].tool_call.name, 0))>>
               /\ telemetry.enabled =>
                    telemetry'.final_tool = results[FirstBreak].tool_call.name
          ELSE /\ pc' = "loop"
               /\ ret' = ret
               /\ events' = events
               /\ telemetry'.final_tool = telemetry.final_tool
      ]_vars

\* a parallel batch of two terminal calls with different texts ended the
\* monologue after the second one completed first
C4_Witness ==
    /\ pc = "returned"
    /\ Len(results) = 2
    /\ results[1].response.break_loop
    /\ results[2].response.break_loop
    /\ results[1].response.message # results[2].response.message
    /\ ret = results[1].response.message
    /\ telemetry.enabled
    /\ Len(telemetry.tool_calls) = 2
    /\ telemetry.tool_calls[1].tool_name = tool_calls[2].name
    /\ telemetry.tool_calls[1].tool_name # tool_calls[1].name

LastLLMCall == telemetry.llm_calls[Len(telemetry.llm_calls)]

\* C5: when the LLM step raises, the monologue returns in that iteration: the
\* only append is one assistant message with the error text (not the partial
\* stream), no tool call is parsed or run, no further LLM call is made, an LLM
\* metric with the error and zero completion tokens is recorded, and the
\* error text is returned.
C5_LLMErrorEnds ==
    [][ (pc = "llm" /\ pc' # "llm") =>
          \/ /\ pc' \in {"loop", "exec"}
             /\ ret' = ret
             /\ history'[Len(history) + 1] = AssistantEntry(full_response)
          \/ /\ pc' = "returned"
             /\ ret'.kind \in LLMErrorKinds
             /\ history' = Append(history,
                    [role |-> "assistant", content |-> Bare(ret')])
             /\ llm_count' = llm_count
             /\ <<tool_calls', slots', results', rounds'>> =
                    <<tool_calls, slots, results, rounds>>
             /\ telemetry.enabled =>
                    /\ Len(telemetry'.llm_calls) = Len(telemetry.llm_calls) + 1
                    /\ telemetry'.llm_calls[Len(telemetry'.llm_calls)] =
                            [completion_tokens |-> 0, error |-> ret']
      ]_vars

\* the LLM step failed in the second iteration, after text had been streamed
C5_Witness ==
    /\ pc = "returned"
    /\ EndedByLLMError
    /\ ret = LastEntry.content.msg
    /\ full_response # EmptyText
    /\ iteration = 2
    /\ telemetry.enabled
    /\ LastLLMCall.error = ret

----------------------------------------------------------------------------
(* Claims about the cache *)

Key(k) == _tool_cache_key(slots[k].tc)

CanCache(k) ==
    config.cache_enabled /\ should_cache(slots[k].tc.name, slots[k].tc.args)

\* slot k goes through _execute_tool_with_instance's cache lookup in this step
Looks(k) ==
    /\ k \in 1..Len(slots)
    /\ rounds' = rounds
    /\ slots[k].pos = "hook_before"
    /\ slots'[k].pos # "hook_before"

\* another call with the key of slot k is between its cache miss and its response
InFlight(k) ==
    \E j \in 1..Len(slots) :
        /\ j # k
        /\ Key(j) = Key(k)
        /\ slots[j].pos \in {"before", "executing", "after"}

\* slot k is the second of two consecutive invocations with one key: the
\* first one is the call before it, a cache miss that has completed
SecondOfTwo(k) ==
    /\ Looks(k)
    /\ CanCache(k)
    /\ Key(k) \in DOMAIN last_call
    /\ ~last_call[Key(k)].cached
    /\ ~InFlight(k)

\* what both statements of C6 say of the second invocation
ServedFromCache(k) ==
    /\ slots'[k].cached
    /\ slots'[k].response.message = last_call[Key(k)].response.message
    /\ slots'[k].nb = 0 /\ slots'[k].ne = 0 /\ slots'[k].na = 0

\* C6 as stated: of two consecutive invocations with the same cacheable key the
\* second is served from the cache with the first one's message, and execute
\* ran exactly once, in the first one.
C6_ExecutesExactlyOnce ==
    [][ \A k \in 1..Len(slots) :
            SecondOfTwo(k) =>
                /\ ServedFromCache(k)
                /\ last_call[Key(k)].ne = 1
      ]_vars

\* C6 as amended: the second is served from the cache with the first one's
\* message and runs nothing; execute ran at most once, and exactly once unless
\* the first invocation ended in an error or a timeout before execute was entered.
C6_ExecutesAtMostOnce ==
    [][ \A k \in 1..Len(slots) :
            SecondOfTwo(k) =>
                /\ ServedFromCache(k)
                /\ last_call[Key(k)].ne <= 1
                /\ last_call[Key(k)].ne = 0 =>
                      /\ last_call[Key(k)].nb = 1
                      /\ last_call[Key(k)].response.message.kind
                            \in {"tool_error", "timed_out"}
      ]_vars

\* a second invocation, in a later batch, served from the entry of a first one
\* that had run execute
C6_Witness ==
    /\ pc = "direct_returned"
    /\ rounds = 2
    /\ Len(results) = 1
    /\ results[1].cached
    /\ results[1].response.message.kind = "memories"
    /\ Key(1) \in DOMAIN last_call
    /\ last_call[Key(1)].cached

\* C7: a cache hit runs none of before_execution, execute and after_execution,
\* leaves the cache as it is, returns exactly the stored message and break_loop
\* flag, and is still wrapped in one tool_execute_before and one
\* tool_execute_after dispatch; a cached break_loop response ends the monologue
\* like a fresh one.
C7_CacheHit ==
    [][ /\ \A k \in 1..Len(slots) :
              (Looks(k) /\ slots'[k].cached) =>
                  /\ Key(k) \in DOMAIN tool_cache
                  /\ slots'[k].response.message = tool_cache[Key(k)].message
                  /\ slots'[k].response.break_loop = tool_cache[Key(k)].break_loop
                  /\ tool_cache[Key(k)] = CacheEntry(last_call[Key(k)].response)
                  /\ tool_cache' = tool_cache
                  /\ slots'[k].nb = 0 /\ slots'[k].ne = 0 /\ slots'[k].na = 0
                  /\ slots'[k].hb = 1
                  /\ slots'[k].pos = "hook_after" => slots'[k].ha = 1
        /\ \A k \in 1..Len(slots) :
              (rounds' = rounds /\ slots[k].cached) =>
                  /\ slots'[k].nb = 0 /\ slots'[k].ne = 0 /\ slots'[k].na = 0
                  /\ slots'[k].hb = 1 /\ slots'[k].ha <= 1
                  /\ slots'[k].response = slots[k].response
        /\ (pc = "fold" /\ \E k \in 1..Len(results) :
                              results[k].cached /\ results[k].response.break_loop)
              => pc' = "returned"
      ]_vars

\* the monologue ended with the cached response of a terminal tool
C7_Witness ==
    /\ pc = "returned"
    /\ Len(results) = 2
    /\ ~results[1].cached
    /\ results[2].cached
    /\ results[2].response.break_loop
    /\ results[2].response = results[1].response
    /\ slots[2].hb = 1 /\ slots[2].ha = 1
    /\ slots[2].nb = 0 /\ slots[2].ne = 0 /\ slots[2].na = 0

----------------------------------------------------------------------------
(* Claims about sequential and parallel batches *)

\* the batch has two or more calls, one of them unknown or not parallel-safe
HasUnsafeCall ==
    /\ Len(tool_calls) >= 2
    /\ \E k \in 1..Len(tool_calls) :
          \/ ~get_tool(tool_calls[k].name)
          \/ ~is_parallel_safe(tool_calls[k].name, tool_calls[k].args)

\* _run_tool_call of slot k has begun and has not returned
Active(k) ==
    slots[k].pos \in {"hook_before", "before", "executing", "after", "hook_after"}

\* _run_tool_call of slot k has begun
Begun(k) == slots[k].pos \notin {"new", "ready"}

\* C8: in a batch of two or more calls with an unknown or not parallel-safe
\* call, call k+1 begins (and its tool_execute_before hook is dispatched) only
\* after call k has its response and its tool_execute_after hook has returned,
\* so at most one call of the batch is running at any time.
C8_SequentialBatch ==
    HasUnsafeCall =>
        /\ Len(slots) = Len(tool_calls)
        /\ \A k \in 1..(Len(slots) - 1) :
              (Begun(k + 1) \/ slots[k + 1].hb > 0) =>
                  /\ slots[k].pos = "done"
                  /\ slots[k].known => slots[k].ha = 1
                  /\ slots[k].response # NoResponse
        /\ \A j, k \in 1..Len(slots) : (Active(j) /\ Active(k)) => j = k

\* the second call of a batch runs its tool after the first, not parallel-safe
\* call (a memory save) has returned
C8_Witness ==
    /\ pc = "exec"
    /\ tool_calls = <<TCSave, TCSearch>>
    /\ slots[1].pos = "done"
    /\ slots[1].ha = 1
    /\ slots[2].pos = "executing"

AllGate ==
    /\ Len(tool_calls) >= 2
    /\ \A k \in 1..Len(tool_calls) : tool_calls[k] = TCGate

\* C9: in a batch of two or more parallel-safe calls every call is started
\* before the batch waits for any of them (no call waits for another to
\* return), so a batch of calls whose execute blocks until two have started
\* always returns, without any timeout having to expire.
C9_ParallelStart ==
    /\ [](pc = "exec" /\ Len(tool_calls) >= 2 /\ all_parallel_safe(tool_calls)
            => \A k \in 1..Len(slots) : slots[k].pos # "new")
    /\ ((pc = "exec" /\ AllGate) ~> (pc = "direct_returned"))

\* the first gate batch returned "ok" for both calls, each of which had waited
\* for the other to start
C9_Witness ==
    /\ pc = "direct_returned"
    /\ rounds = 1
    /\ tool_calls = <<TCGate, TCGate>>
    /\ gate.started = 2
    /\ \A k \in 1..2 : results[k].response = Response(Msg("text", "", "ok", 0), FALSE)

----------------------------------------------------------------------------
(* Claims about timeouts *)

\* the timeout of wait_for expires for slot k in this step
TimesOut(k) ==
    /\ rounds' = rounds
    /\ slots[k].pos \in {"before", "executing", "after"}
    /\ slots'[k].pos \in {"hook_after", "raised"}
    /\ slots'[k].response.message.kind = "timed_out"

\* the timeout that applies to a call, in ms: no tool class sets its own
ResolvedTimeout(name) ==
    IF name \in DOMAIN config.timeouts THEN config.timeouts[name]
    ELSE config.default_timeout

TimedOut(response) == response.message.kind = "timed_out"

\* C10: a timeout ends only the call it belongs to: that call's response is
\* "[Tool 'name' timed out after t s]" with t the resolved timeout to one
\* decimal and break_loop false, the other calls of the batch are left as they
\* are and go on to their own responses, the batch returns one result per call,
\* and a timed-out result never ends the monologue: with no break_loop result
\* in the batch the loop goes on.
C10_TimeoutOnlyThatCall ==
    [][ /\ \A k \in 1..Len(slots) :
              TimesOut(k) =>
                  /\ slots'[k].response =
                        Response(Msg("timed_out", slots[k].tc.name, "",
                                     (ResolvedTimeout(slots[k].tc.name) + 50) \div 100),
                                 FALSE)
                  /\ ~slots'[k].cached
                  /\ \A j \in 1..Len(slots) : j # k => slots'[j] = slots[j]
                  /\ pc' = pc
        /\ (pc = "exec" /\ pc' \in {"fold", "direct_returned"}) =>
              /\ Len(results') = Len(tool_calls)
              /\ \A k \in 1..Len(slots) :
                    /\ results'[k].response = slots[k].response
                    /\ (~TimedOut(slots[k].response) /\ ~slots[k].cached
                            /\ slots[k].known
                            /\ slots[k].response.message.kind # "tool_error")
                          => results'[k].response = ExecuteResult(tool_calls[k])
        /\ (pc = "fold" /\ \E k \in 1..Len(results) : TimedOut(results[k].response)) =>
              /\ pc' = "returned" =>
                    /\ ~TimedOut(results[FirstBreak].response)
                    /\ ret' = results[FirstBreak].response.message
              /\ BreakIndices = {} => pc' = "loop"
      ]_vars

\* a call of a parallel batch timed out, the other call returned its own
\* result, and the monologue went on to its next iteration
C10_Witness ==
    /\ pc = "llm"
    /\ iteration = 2
    /\ mode = "parallel"
    /\ Len(results) = 2
    /\ results[1].response = Response(Msg("timed_out", "memory", "", 0), FALSE)
    /\ ~results[1].cached
    /\ results[2].response.message.kind = "memories"
    /\ ~results[2].cached
    /\ Len(history) = 4

----------------------------------------------------------------------------
(* Claims about the phases of one tool call *)

Phases == {"before", "executing", "after"}

\* the tool's coroutine raises in this step, for slot k
Raises(k) ==
    /\ rounds' = rounds
    /\ slots[k].pos \in Phases
    /\ slots'[k].exc # NoException

\* C11: for a non-cached call before_execution, execute and after_execution
\* are entered in that order and each at most once; a raise in before_execution
\* leaves execute and after_execution unentered, a raise in execute leaves
\* after_execution unentered; whenever one of the three raises e, the call's
\* response is "[Tool 'name' error: e]" with break_loop false and the call
\* goes on to return from the executor.
C11_PhasesAndErrors ==
    [][ \A k \in 1..Len(slots) :
          /\ (rounds' = rounds /\ Len(slots') = Len(slots)) =>
                /\ slots'[k].nb <= 1 /\ slots'[k].ne <= 1 /\ slots'[k].na <= 1
                /\ slots'[k].na <= slots'[k].ne /\ slots'[k].ne <= slots'[k].nb
                /\ slots'[k].ne > slots[k].ne => slots[k].pos = "before"
                /\ slots'[k].na > slots[k].na => slots[k].pos = "executing"
                /\ slots[k].pos \in {"hook_after", "done", "raised"} =>
                      /\ slots'[k].nb = slots[k].nb
                      /\ slots'[k].ne = slots[k].ne
                      /\ slots'[k].na = slots[k].na
          /\ Raises(k) =>
                /\ slots'[k].nb = slots[k].nb
                /\ slots'[k].ne = slots[k].ne
                /\ slots'[k].na = slots[k].na
                /\ slots[k].pos = "before" => slots'[k].ne = 0 /\ slots'[k].na = 0
                /\ slots[k].pos = "executing" => slots'[k].na = 0
                /\ slots'[k].response =
                      Response(ToolErrorMsg(slots[k].tc.name, slots'[k].exc), FALSE)
                /\ ~slots'[k].cached
                /\ slots'[k].pos = "hook_after"
                /\ pc' = pc
      ]_vars

----------------------------------------------------------------------------
(* Claims about the timeout of a call *)

\* slot k entered _run() with its timeout resolved
Resolved(k) == slots[k].pos = "before"

\* C12: the timeout applied to a call is the entry of config.timeouts for the
\* tool name when there is one, whatever the tool's own timeout_seconds and the
\* default are; else the tool's timeout_seconds when it is not None; else
\* config.default_timeout.
C12_TimeoutResolution ==
    \A k \in 1..Len(slots) :
        Resolved(k) =>
            LET name == slots[k].tc.name
            IN /\ name \in DOMAIN config.timeouts =>
                      slots[k].timeout = config.timeouts[name]
               /\ (name \notin DOMAIN config.timeouts
                        /\ slots[k].tool_timeout # None) =>
                      slots[k].timeout = slots[k].tool_timeout
               /\ (name \notin DOMAIN config.timeouts
                        /\ slots[k].tool_timeout = None) =>
                      slots[k].timeout = config.default_timeout

\* a call whose tool has both a config entry and its own timeout_seconds ran
\* under the config entry
C12_Witness ==
    /\ Len(slots) = 1
    /\ Resolved(1)
    /\ slots[1].tc.name = "plugin"
    /\ "plugin" \in DOMAIN config.timeouts
    /\ config.timeouts["plugin"] = 500
    /\ slots[1].tool_timeout = 20
    /\ slots[1].timeout = 500

----------------------------------------------------------------------------
(* Claims about the reminder *)

IsReminder(entry) == entry = [role |-> "system", content |-> Bare(ReminderMsg)]

\* the assistant entry of an iteration, with or without tool calls in its text
IsLLMText(entry) == entry.role = "assistant" /\ entry.content.kind = "llm_text"

IsNoToolText(entry) == IsLLMText(entry) /\ entry.content.llm.calls = << >>

\* the number of consecutive no-tool iterations that ends with entry i, counted
\* back to the start, to an iteration with a tool call or to a reminder
RECURSIVE NoToolStreak(_, _)
NoToolStreak(hist, i) ==
    IF i = 0 \/ ~IsNoToolText(hist[i]) THEN 0
    ELSE 1 + NoToolStreak(hist, i - 1)

Reminders(hist) == {i \in 1..Len(hist) : IsReminder(hist[i])}

Iterations(hist) == {i \in 1..Len(hist) : IsLLMText(hist[i])}

\* the reminders of a history are where the claim puts them
RemindersInPlace(hist) ==
    /\ \A i \in 1..Len(hist) :
          IsNoToolText(hist[i]) =>
              ((i < Len(hist) /\ IsReminder(hist[i + 1]))
                  <=> NoToolStreak(hist, i) = 5)
    /\ \A i \in Reminders(hist) : i > 1 /\ IsNoToolText(hist[i - 1])
    /\ (\A i \in Iterations(hist) : IsNoToolText(hist[i])) =>
          Cardinality(Reminders(hist)) = Cardinality(Iterations(hist)) \div 5

\* C13: within one monologue the reminder is appended in an iteration exactly
\* when that iteration is the 5th consecutive one with no valid tool call since
\* the start, the last iteration with a tool call or the last reminder; the
\* counter is then reset and the loop goes on; n iterations with no tool call
\* at all append floor(n/5) reminders.
C13_ReminderEveryFifth ==
    [][ /\ RemindersInPlace(history')
        /\ Len(history') > Len(history) /\ IsReminder(history'[Len(history')]) =>
              /\ no_tool_count' = 0
              /\ pc' = "loop"
              /\ iteration' = iteration
      ]_vars

\* a monologue that ran to the iteration cap without a tool call and got
\* one reminder for every five of its iterations
C13_Witness ==
    /\ pc = "returned"
    /\ ret = FallbackMsg
    /\ iteration = config.max_monologue_iterations
    /\ Cardinality(Iterations(history)) = iteration
    /\ \A i \in Iterations(history) : IsNoToolText(history[i])
    /\ Cardinality(Reminders(history)) = iteration \div 5
    /\ Cardinality(Reminders(history)) >= 2

----------------------------------------------------------------------------
(* Claims about the side effects of a batch *)

\* slot k gets its response in this step
Completes(k) ==
    /\ rounds' = rounds
    /\ slots[k].rank = 0
    /\ slots'[k].rank > 0

\* the telemetry record of slot k is appended in this step
MetricAppended(k) ==
    /\ Len(telemetry'.tool_calls) = Len(telemetry.tool_calls) + 1
    /\ LET metric == telemetry'.tool_calls[Len(telemetry'.tool_calls)]
       IN /\ metric.tool_name = slots[k].tc.name
          /\ metric.args = slots[k].tc.args
          /\ metric.result_summary = slots'[k].response.message
    /\ SubSeq(telemetry'.tool_calls, 1, Len(telemetry.tool_calls))
          = telemetry.tool_calls

\* the telemetry records are appended as the calls complete, one per step
TelemetryAsCompleted ==
    \A k \in 1..Len(slots) :
        (Completes(k) /\ telemetry.enabled /\ slots[k].known
             /\ slots'[k].pos # "raised") => MetricAppended(k)

\* the loop over the results ends in this step
Folds == pc = "fold" /\ pc' # "fold"

PersistedRecord(k) ==
    [tool_name |-> slots[k].tc.name, args |-> slots[k].tc.args,
     result |-> slots[k].response.message]

\* the records the fold step adds to context data
NewRecords == SubSeq(data_tool_calls', Len(data_tool_calls) + 1, Len(data_tool_calls'))

\* the entries the fold step adds to the history
NewEntries == SubSeq(history', Len(history) + 1, Len(history'))

HistoryInInputOrder ==
    Folds =>
        /\ Len(NewEntries) = Len(tool_calls)
        /\ \A i \in 1..Len(tool_calls) :
              NewEntries[i] =
                  [role |-> "system",
                   content |-> ToolResultContent(tool_calls[i].name,
                                                 slots[i].response.message)]

\* C14 as stated: for the calls of one batch the persistence writes and the
\* telemetry tool-call records happen in the order in which the calls
\* complete, and only the folding into the history happens in input order.
C14_SideEffectsAsCompleted ==
    [][ /\ TelemetryAsCompleted
        /\ Folds =>
              /\ Len(NewRecords) = Len(slots)
              /\ \A k \in 1..Len(slots) :
                    NewRecords[slots[k].rank] = PersistedRecord(k)
        /\ HistoryInInputOrder
      ]_vars

\* C14, amended: the telemetry tool-call records happen in the order in which
\* the calls complete; the persistence writes happen in input order, in the
\* same loop that folds the results into the history, and nowhere else.
C14_TelemetryAsCompleted ==
    [][ /\ TelemetryAsCompleted
        /\ Folds =>
              /\ Len(NewRecords) = Len(slots)
              /\ \A k \in 1..Len(slots) : NewRecords[k] = PersistedRecord(k)
              /\ SubSeq(data_tool_calls', 1, Len(data_tool_calls)) = data_tool_calls
        /\ ~Folds => data_tool_calls' = data_tool_calls
        /\ HistoryInInputOrder
      ]_vars

\* a parallel batch whose second call completed first: its telemetry record
\* precedes the first call's, its persisted record and history entry follow
C14_Witness ==
    /\ pc = "returned"
    /\ telemetry.enabled
    /\ mode = "parallel"
    /\ Len(slots) = 2
    /\ slots[1].tc # slots[2].tc
    /\ slots[1].rank = 2
    /\ slots[2].rank = 1
    /\ Len(telemetry.tool_calls) = 2
    /\ telemetry.tool_calls[1].tool_name = slots[2].tc.name
    /\ telemetry.tool_calls[2].tool_name = slots[1].tc.name
    /\ Len(data_tool_calls) = 2
    /\ data_tool_calls[1] = PersistedRecord(1)
    /\ data_tool_calls[2] = PersistedRecord(2)
    /\ history[Len(history)].content.name = slots[2].tc.name

----------------------------------------------------------------------------
(* Claims about the tool metrics *)

\* C15: with telemetry enabled a batch of N calls records exactly N tool-call
\* metrics, one for each call as it gets its response and none at any other
\* step: for executed calls, for cache hits (with cached true), for timed-out
\* calls and for calls whose tool name is not in the registry.
C15_OneMetricPerCall ==
    [][ telemetry.enabled =>
          /\ \A k \in 1..Len(slots) :
                Completes(k) =>
                    /\ MetricAppended(k)
                    /\ telemetry'.tool_calls[Len(telemetry'.tool_calls)].cached
                          = slots'[k].cached
          /\ (\A k \in 1..Len(slots) : ~Completes(k)) =>
                telemetry'.tool_calls = telemetry.tool_calls
          /\ (pc = "exec" /\ pc' \in {"fold", "direct_returned"}) =>
                \A k \in 1..Len(slots) : slots[k].rank > 0
      ]_vars

ErrorOutcome(response) == response.message.kind \in {"timed_out", "tool_error"}

\* C16: with telemetry enabled every call that ends in a timeout response or
\* in a tool-error response is recorded as a metric whose error field is set,
\* and neither outcome ends the monologue: the batch is folded and, with no
\* break_loop result in it, the loop goes on.
C16_ErrorOutcomesRecorded ==
    [][ /\ telemetry.enabled =>
              \A k \in 1..Len(slots) :
                  (Completes(k) /\ ErrorOutcome(slots'[k].response)) =>
                      /\ MetricAppended(k)
                      /\ telemetry'.tool_calls[Len(telemetry'.tool_calls)].error
                            # NoMsg
                      /\ pc' = pc
        /\ (pc = "fold" /\ \E k \in 1..Len(results) : ErrorOutcome(results[k].response)) =>
              /\ pc' \in {"loop", "returned"}
              /\ pc' = "returned" => ~ErrorOutcome(results[FirstBreak].response)
              /\ BreakIndices = {} => pc' = "loop"
      ]_vars

----------------------------------------------------------------------------
(* Claims about ExtensionManager.dispatch *)

\* the extensions whose handler dispatch has to invoke
Handling == {i \in 1..Len(extensions) :
                extensions[i].enabled /\ extensions[i].handler # "absent"}

\* the extensions whose handler returns a value that is not None
Returning == {i \in Handling : extensions[i].handler = "returns_value"}

IsStrictlyIncreasing(seq) ==
    \A a, b \in 1..Len(seq) : a < b => seq[a] < seq[b]

Raised(i) ==
    /\ dispatch.pc = "awaiting"
    /\ dispatch.i = i
    /\ extensions[i].handler = "raises"
    /\ dispatch'.pc # "awaiting"

\* the extensions after the one in hand that are enabled and have a handler
\* were all invoked
LaterInvoked(d) ==
    \A j \in Handling :
        j < d.i => \E a \in 1..Len(d.invoked) : d.invoked[a] = j

\* C18: an exception raised by a handler does not leave dispatch: the loop
\* goes on with the next extension and the result so far, every later enabled
\* extension's handler is invoked, and dispatch returns what it would return
\* had the failing handler returned None.
C18_HandlerErrorContained ==
    [][ /\ dispatch'.pc # "raised"
        /\ \A i \in 1..Len(extensions) :
              Raised(i) =>
                  /\ dispatch'.pc = "loop"
                  /\ dispatch'.i = i + 1
                  /\ dispatch'.result = dispatch.result
                  /\ dispatch'.invoked = dispatch.invoked
        /\ (dispatch.pc = "loop" /\ dispatch'.pc = "returned") =>
              /\ LaterInvoked(dispatch)
              /\ dispatch'.ret =
                    IF Returning = {} THEN None
                    ELSE HandlerValue(CHOOSE i \in Returning :
                                          \A j \in Returning : j <= i)
      ]_vars

\* the first extension returned a value, the second raised, the third was
\* invoked all the same and returned None: dispatch returned the first's value
C18_Witness ==
    /\ dispatch.pc = "returned"
    /\ Len(extensions) = 3
    /\ \A i \in 1..3 : extensions[i].enabled
    /\ extensions[1].handler = "returns_value"
    /\ extensions[2].handler = "raises"
    /\ extensions[3].handler = "returns_none"
    /\ dispatch.invoked = <<1, 2, 3>>
    /\ dispatch.ret = HandlerValue(1)

----------------------------------------------------------------------------
(* Claims about the output parser *)

\* the valid calls the k-th strategy yields on a text, by itself
StrategyCalls(k, text) ==
    PayloadLoop(k, StrategyPayloads(k, text), 1,
                [results |-> << >>, errors |-> << >>]).results

\* the strategies that yield at least one valid call on the text
Yielding(text) == {k \in 1..Len(Strategies) : StrategyCalls(k, text) # << >>}

FirstYielding(text) == CHOOSE k \in Yielding(text) : \A j \in Yielding(text) : k <= j

\* C19: extract_tool_calls tries code_fence, raw_json, bracket_match, repair in
\* that order and returns exactly the valid calls of the first strategy that
\* yields at least one, in that strategy's order; nothing a later strategy
\* would find is added, and with no yielding strategy the result is empty.
C19_FirstStrategyWins ==
    /\ Strategies = <<"code_fence", "raw_json", "bracket_match", "repair">>
    /\ parse.pc = "strategies" =>
          \A j \in 1..(parse.k - 1) :
              j <= Len(Strategies) => StrategyCalls(j, parse.raw_text) = << >>
    /\ parse.pc = "returned" =>
          IF Yielding(parse.raw_text) = {}
          THEN parse.ret = << >> /\ parse.k = Len(Strategies) + 1
          ELSE /\ parse.k = FirstYielding(parse.raw_text)
               /\ parse.ret = StrategyCalls(parse.k, parse.raw_text)

\* a fenced search call followed by a bare response call: code_fence returned
\* its one call although bracket_match would have found both
C19_Witness ==
    /\ parse.pc = "returned"
    /\ parse.k = 1
    /\ parse.ret = <<ToolCall("memory", "search", "a")>>
    /\ Len(StrategyCalls(3, parse.raw_text)) = 2

\* the valid calls among the items of the payloads that are JSON, each item
\* judged by itself
SiblingsKept(k, text) ==
    LET payloads == StrategyPayloads(k, text)
    IN Concat([p \in 1..Len(payloads) |->
                 IF _parse_json(payloads[p].syntax) # NoError THEN << >>
                 ELSE LET valid == SelectSeq(payloads[p].items,
                                      LAMBDA item : /\ _normalize_payload(item) = NoError
                                                    /\ IsValid(item))
                      IN [i \in 1..Len(valid) |-> ValidatedCall(valid[i])]])

\* C20: within one strategy a rejected call (unknown tool, missing required
\* argument, wrong argument type, malformed item) does not keep its valid
\* siblings from being returned: the strategy yields every valid call of its
\* other payloads and every valid call that is another element of the same
\* top-level array, in order.
C20_ValidSiblingsKept ==
    [][ (parse.pc = "strategies" /\ parse.k <= Len(Strategies)) =>
            parse'.results = parse.results \o SiblingsKept(parse.k, parse.raw_text)
      ]_vars

\* the errors the k-th strategy reports on a text, by itself
StrategyErrors(k, text) ==
    PayloadLoop(k, StrategyPayloads(k, text), 1,
                [results |-> << >>, errors |-> << >>]).errors

\* extract_tool_calls returns in this step
ParserReturns == parse.pc = "strategies" /\ parse'.pc = "returned"

\* C21: extract_tool_calls appends exactly one record to the parse-failure
\* log, holding the raw text and the errors collected from the strategies in
\* their order, in the step in which it returns the empty list, and appends
\* nothing in any other step: a call that returns a tool call logs nothing.
C21_FailureLoggedOnce ==
    [][ /\ (ParserReturns /\ parse'.ret = << >>) =>
              /\ Len(parse'.log) = Len(parse.log) + 1
              /\ SubSeq(parse'.log, 1, Len(parse.log)) = parse.log
              /\ LET record == parse'.log[Len(parse'.log)]
                     collected == Concat([k \in 1..Len(Strategies) |->
                                            StrategyErrors(k, parse.raw_text)])
                 IN /\ record.raw_text = parse.raw_text
                    /\ collected # << >> => record.errors = collected
                    /\ record.errors # << >>
        /\ ~(ParserReturns /\ parse'.ret = << >>) => parse'.log = parse.log
        /\ parse'.pc = "returned" =>
              Len(parse'.log) = IF parse'.ret = << >> THEN 1 ELSE 0
      ]_vars

\* a text with a fenced unknown tool and a bare call that misses its argument
\* gave no call, and one record with the errors of three strategies
C21_Witness ==
    /\ parse.pc = "returned"
    /\ parse.ret = << >>
    /\ Len(parse.log) = 1
    /\ parse.log[1].raw_text = parse.raw_text
    /\ Len(parse.raw_text) = 2
    /\ Len(parse.log[1].errors) >= 3
    /\ \E i, j \in 1..Len(parse.log[1].errors) :
          parse.log[1].errors[i][1] # parse.log[1].errors[j][1]

----------------------------------------------------------------------------
(* Claims about names and argument aliases *)
\* what the parser makes of a payload
Outcome(payload) ==
    _validate_tool_call(ParsedTool([tool_name |-> payload.name,
                                    tool_args |-> payload.args]))

\* C22: a payload whose tool name is written in any letter case gets the
\* canonical registry name and the same outcome, arguments with their aliases
\* included, as the payload that writes the name in canonical case; and every
\* argument of the resulting call was either written in the payload or is an
\* alias target holding the value of a written source key.
C22_AliasesInAnyCase ==
    (norm.pc = "done" /\ Lower(norm.payload.name) \in DOMAIN registered) =>
        LET canonical == registered[Lower(norm.payload.name)]
            same == Outcome([norm.payload EXCEPT !.name = canonical])
        IN  /\ norm.error = same.error
            /\ norm.call = same.call
            /\ norm.error = NoError =>
                 /\ norm.call.name = canonical
                 /\ \A k \in DOMAIN norm.call.args :
                      \/ /\ k \in DOMAIN norm.payload.args
                         /\ norm.call.args[k] = norm.payload.args[k]
                      \/ /\ k \in {"text", "code"}
                         /\ \E src \in DOMAIN norm.payload.args :
                              norm.call.args[k] = norm.payload.args[src]

----------------------------------------------------------------------------
(* Claims about the model router *)

\* a select_model call with routing enabled has returned
Routed == router.pc = "returned" /\ router.enabled

\* the last tool has an entry in the tool-affinity table
HasAffinity ==
    router.last_tool_name # "" /\ router.last_tool_name \in DOMAIN router.tool_affinity

\* C23: with routing enabled, a last tool name with an entry in the
\* tool-affinity table decides the route key, and the model returned is the
\* one returned for the empty message list, so no message content counts;
\* when the last tool name is empty or has no entry the route key is the one
\* of the content heuristics.
C23_ToolAffinityFirst ==
    Routed =>
        IF HasAffinity
        THEN /\ router.route_key = router.tool_affinity[router.last_tool_name]
             /\ router.ret = ModelOfRoute(router, router.route_key)
             /\ router.ret = ModelOfRoute(router, RouteKey(router, << >>, router.last_tool_name))
        ELSE router.route_key = _route_from_messages(router.messages)

\* the affinity of code_execution decided against a user message that asks
\* for a summary
C23_Witness ==
    /\ Routed
    /\ HasAffinity
    /\ router.route_key = "coding"
    /\ router.ret = <<"code-model">>
    /\ _route_from_messages(router.messages) = "summarization"
    /\ "summarization" \in DOMAIN router.routes

\* a name is in the observed list, itself or as the start of a tagged name
Listed(model) ==
    /\ model # << >>
    /\ \/ model \in router._available_models.names
       \/ \E name \in router._available_models.names :
            /\ Len(name) > Len(model)
            /\ \A i \in 1..Len(model) : name[i] = model[i]

\* the model the route table gives the route key, the default-route model
\* when the table has no entry for it
Candidate ==
    IF router.route_key \in DOMAIN router.routes
    THEN router.routes[router.route_key] ELSE _default_model(router)

\* C24: with routing enabled and an observed model list, select_model
\* returns the routed candidate when it is listed (by its exact name or as a
\* listed name that starts with the candidate and a colon), otherwise the
\* default-route model when that is listed, otherwise the chat model; so the
\* returned model is listed or is the chat model; with routing disabled the
\* chat model is returned for every input.
C24_AvailableOrChatModel ==
    /\ (Routed /\ router._available_models.loaded) =>
          /\ router.ret = IF Listed(Candidate) THEN Candidate
                          ELSE IF Listed(_default_model(router))
                               THEN _default_model(router)
                               ELSE router.chat_model
          /\ Listed(router.ret) \/ router.ret = router.chat_model
    /\ (router.pc = "returned" /\ ~router.enabled) => router.ret = router.chat_model

\* the candidate code-model was returned because code-model:7b is listed
C24_Witness ==
    /\ Routed
    /\ router._available_models.loaded
    /\ router.ret = <<"code-model">>
    /\ <<"code-model">> \notin router._available_models.names
    /\ <<"code-model", "7b">> \in router._available_models.names

\* the most recent user message of the list, the empty text when there is none
MostRecentUserText ==
    IF \E i \in 1..Len(router.messages) : router.messages[i].role = "user"
    THEN LET i == CHOOSE i \in 1..Len(router.messages) :
                    /\ router.messages[i].role = "user"
                    /\ \A j \in (i + 1)..Len(router.messages) :
                         router.messages[j].role # "user"
         IN  router.messages[i].content
    ELSE {}

CodeMarker(text) == "fence" \in text \/ "import" \in text

SummaryKeyword(text) == "summarize" \in text

\* the route of a text that has words
HeuristicRoute(text) ==
    IF CodeMarker(text) THEN "coding"
    ELSE IF SummaryKeyword(text) THEN "summarization"
    ELSE "reasoning"

\* C25 as stated: when no tool affinity applies the route key comes from the
\* most recent user message: coding with a code marker, else summarization
\* with a summary keyword, else reasoning, and reasoning also when the list
\* has no usable user message.
C25_RouteFromLastUserMessage ==
    (Routed /\ ~HasAffinity) => router.route_key = HeuristicRoute(MostRecentUserText)

\* C25, amended: as above, but a message list without a usable user message
\* (none, or the most recent one empty) gets the route key "default".
C25_DefaultWithoutUserMessage ==
    (Routed /\ ~HasAffinity) =>
        router.route_key = IF MostRecentUserText = {} THEN "default"
                           ELSE HeuristicRoute(MostRecentUserText)

\* two user messages, the earlier a summary request, the later with a code
\* marker and a summary keyword: coding
C25_Witness ==
    /\ Routed
    /\ ~HasAffinity
    /\ Len(router.messages) = 2
    /\ router.messages[1] = [role |-> "user", content |-> {"summarize"}]
    /\ router.messages[2] = [role |-> "user", content |-> {"fence", "summarize"}]
    /\ router.route_key = "coding"

\* a list with no user message got the default route, whose model is not the
\* reasoning model
C25_WitnessDefault ==
    /\ Routed
    /\ ~HasAffinity
    /\ router.messages # << >>
    /\ MostRecentUserText = {}
    /\ router.route_key = "default"
    /\ ~router._available_models.loaded
    /\ router.ret # router.routes["reasoning"]

----------------------------------------------------------------------------
(* Claims about tool discovery *)

\* the tools the bridge was given before item n of its dict, by listed name
ListedBefore(n) == {registry.tools[j].tool.spec : j \in 1..(n - 1)}

NamesBefore(n) == {registry.tools[j].name : j \in 1..(n - 1)}

\* C26: discovery never replaces or removes an entry of the registry, every
\* built-in stays registered under its name, an external tool whose name is a
\* registered one is dropped, every other external tool is registered under
\* its own name, and no two external tools get one name: the first tool
\* listed under a name keeps it, a later one of that name gets
\* "<server>.<name>", with a numeric suffix when that is taken too.
C26_NoToolReplaced ==
    [][ /\ \A n \in DOMAIN registry._tool_classes :
              /\ n \in DOMAIN registry'._tool_classes
              /\ registry'._tool_classes[n] = registry._tool_classes[n]
        /\ \A n \in BuiltinNames : registry'._tool_classes[n] = BuiltinTool(n)
        /\ \A a, b \in 1..Len(registry'.tools) :
              registry'.tools[a].name = registry'.tools[b].name => a = b
        /\ Len(registry.tools) <= Len(registry'.tools)
        /\ \A a \in 1..Len(registry.tools) : registry'.tools[a] = registry.tools[a]
        /\ \A a \in 1..Len(registry'.tools) :
              LET item == registry'.tools[a]
                  prefixed == <<item.tool.server>> \o item.tool.spec
              IN  IF item.tool.spec \notin NamesBefore(a) THEN item.name = item.tool.spec
                  ELSE IF prefixed \notin NamesBefore(a) THEN item.name = prefixed
                  ELSE /\ Len(item.name) = Len(prefixed) + 1
                       /\ SubSeq(item.name, 1, Len(prefixed)) = prefixed
                       /\ item.name \notin NamesBefore(a)
        /\ registry'.pc = "done" =>
              \A a \in 1..Len(registry'.tools) :
                 LET item == registry'.tools[a]
                 IN  IF item.name \in BuiltinNames
                     THEN registry'._tool_classes[item.name] # item.tool
                     ELSE /\ item.name \in DOMAIN registry'._tool_classes
                          /\ registry'._tool_classes[item.name] = item.tool
      ]_vars

\* alpha listed memory and read_file, beta listed read_file twice: the
\* built-in memory stayed, and read_file, beta.read_file and
\* beta.read_file.2 are three tools
C26_Witness ==
    /\ registry.pc = "done"
    /\ registry.lists = << <<<<"memory">>, <<"read_file">>>>,
                           <<<<"read_file">>, <<"read_file">>>> >>
    /\ DOMAIN registry._tool_classes =
          BuiltinNames \cup {<<"read_file">>, <<"beta", "read_file">>,
                             <<"beta", "read_file", "2">>}
    /\ registry._tool_classes[<<"memory">>] = BuiltinTool(<<"memory">>)
    /\ registry._tool_classes[<<"read_file">>].server = "alpha"
    /\ registry._tool_classes[<<"beta", "read_file">>].at = <<2, 1>>
    /\ registry._tool_classes[<<"beta", "read_file", "2">>].at = <<2, 2>>

----------------------------------------------------------------------------
(* Claims about the session store *)

\* a call of the store raised in this step
StoreFailed == store'.errors # store.errors

\* the step as the monologue takes it when no call of the store raises
StoreFreeStep ==
    \/ \E u \in UserMessages : Monologue(u)
    \/ \E kind \in LLMErrorKinds : LLMFails(kind)
    \/ LLMReturns
    \/ FoldResults

\* C27: a step in which save_message, set_title, save_tool_call or
\* increment_token_counts raises does not leave the loop and changes the
\* agent (history, tool-call records, position, return value and the rest)
\* exactly as the same step does when the store succeeds; every message of
\* the history and every tool-call record was appended before its save was
\* tried, whatever became of the saves before it.
C27_StoreFailureContained ==
    [][ /\ StoreFailed => (pc' # "raised" /\ StoreFreeStep)
        /\ store'.calls["save_message"] = Len(history')
        /\ store'.calls["save_tool_call"] = Len(data_tool_calls')
        /\ \A op \in StoreOps : store'.errors[op] <= store'.calls[op]
      ]_vars

\* every operation of the store has raised once or more, two batches ran
\* after the first failure and the monologue returned the final response
C27_Witness ==
    /\ pc = "returned"
    /\ \A op \in StoreOps : store.errors[op] >= 1
    /\ store.errors["save_message"] >= 2
    /\ rounds = 2
    /\ Len(data_tool_calls) >= 2
    /\ last_tool_name = "response"
    /\ ret = results[1].response.message
    /\ ret # FallbackMsg

----------------------------------------------------------------------------
(* Claims about subordinate agents *)

\* the largest id of the table
LargestId == CHOOSE id \in DOMAIN agents : \A other \in DOMAIN agents : other <= id

\* the agents that are new in this step
NewAgents == DOMAIN agents' \ DOMAIN agents

\* the histories that this step changed
Changed == {id \in DOMAIN agents : agents'[id].history # agents[id].history}

\* C28: a step registers at most one agent; the new agent has the largest
\* existing id plus one, an empty history and a serial no other agent has;
\* every existing entry stays the agent it was, with its history, also while
\* other call_subordinate calls of the same batch are under way; and a step of
\* one agent's monologue appends to the history of that agent only.
C28_SubordinateIds ==
    [][ /\ DOMAIN agents \subseteq DOMAIN agents'
        /\ \A id \in DOMAIN agents :
              /\ agents'[id].serial = agents[id].serial
              /\ agents'[id].parent = agents[id].parent
        /\ Cardinality(NewAgents) <= 1
        /\ \A id \in NewAgents :
              /\ id = LargestId + 1
              /\ agents'[id].history = << >>
              /\ agents'[id].parent \in DOMAIN agents
              /\ \A other \in DOMAIN agents : agents[other].serial # agents'[id].serial
              /\ Changed = {}
        /\ Cardinality(Changed) <= 1
        /\ \A id \in Changed :
              /\ agents[id].pc \in {"created", "monologue"}
              /\ Len(agents'[id].history) = Len(agents[id].history) + 1
              /\ SubSeq(agents'[id].history, 1, Len(agents[id].history)) = agents[id].history
      ]_vars

\* agent 0 of a resumed session ran two call_subordinate calls at once, and
\* the first subordinate one of its own: agents 1, 2 and 3, the histories of
\* 1 and 2 growing while both monologues are under way
C28_Witness ==
    /\ DOMAIN agents = {0, 1, 2, 3}
    /\ agents[1].parent = 0
    /\ agents[2].parent = 0
    /\ agents[3].parent = 1
    /\ agents[1].pc = "monologue"
    /\ agents[2].pc = "monologue"
    /\ Len(agents[2].history) = 2
    /\ agents[0].history = <<[role |-> "user", content |-> "old"]>>

----------------------------------------------------------------------------
(* Claims about the history *)

OllamaRoles == {"user", "assistant", "system"}

\* C29: the history of every agent only grows at its end: after every step
\* it is the history before the step followed by the messages appended, so
\* no message is removed, reordered or changed; every message has one of the
\* roles user, assistant and system, and a message appended under another
\* role is stored as system.
C29_HistoryAppendOnly ==
    [][ \A id \in DOMAIN agents :
          /\ id \in DOMAIN agents'
          /\ Len(agents'[id].history) >= Len(agents[id].history)
          /\ \A i \in 1..Len(agents[id].history) :
                agents'[id].history[i] = agents[id].history[i]
          /\ \A i \in (Len(agents[id].history) + 1)..Len(agents'[id].history) :
                LET message == agents'[id].history[i]
                IN  /\ message.role \in OllamaRoles
                    /\ message.role = IF message.content \in OllamaRoles
                                      THEN message.content ELSE "system"
      ]_vars

\* a subordinate whose second message was appended under the role tool and
\* is stored as system, next to agent 0 with its stored message and another
C29_Witness ==
    /\ 1 \in DOMAIN agents
    /\ Len(agents[1].history) = 2
    /\ agents[1].history[2] = [role |-> "system", content |-> "tool"]
    /\ Len(agents[0].history) = 2
    /\ agents[0].history[1].content = "old"

\* C30: a list returned by the before_llm_call hook replaces only the list
\* sent to the LLM in that iteration: the step leaves the history as it was,
\* the list sent is the hook's list when there is one and the composed list
\* otherwise, every iteration composes its list as the system prompt followed
\* by the history, and no other step touches the list.
C30_ReplacementOnlyForTheCall ==
    [][/\ (pc = "loop" /\ pc' = "llm") =>
              /\ history' = history
              /\ request'.composed = <<SystemMsg>> \o history'
              /\ request'.messages = IF request'.modified.is_none
                                     THEN request'.composed
                                     ELSE request'.modified.list
       /\ request' # request => (pc = "loop" /\ pc' = "llm")]_vars

\* the second iteration, after one whose list the hook replaced by an empty
\* list: the new list holds the whole history again, and is replaced again
C30_Witness ==
    /\ iteration = 2
    /\ pc = "llm"
    /\ request.previous = << >>
    /\ Len(history) >= 2
    /\ request.composed = <<SystemMsg>> \o history
    /\ ~request.modified.is_none
    /\ request.messages = <<SystemMsg, SummaryMsg, history[Len(history)]>>

\* the place of a position of _run_tool_call in the order of its steps
PosRank(pos) ==
    CASE pos = "new" -> 0
      [] pos = "ready" -> 1
      [] pos = "hook_before" -> 2
      [] pos = "before" -> 3
      [] pos = "executing" -> 4
      [] pos = "after" -> 5
      [] pos \in {"hook_after", "raised"} -> 6
      [] pos = "done" -> 7

EventNames(evs) == [i \in 1..Len(evs) |-> evs[i].name]

NewEvents == EventNames(SubSeq(events', Len(events) + 1, Len(events')))

LastRole(hist) == hist[Len(hist)].role

\* C31: the steps of a monologue occur in one order.  message_loop_start is
\* dispatched once, with the appended user message, before any iteration; an
\* iteration dispatches message_loop_prompts_before, then before_llm_call,
\* then streams, then dispatches after_llm_call in the step that appends the
\* assistant message and parses; a call of the batch goes through
\* tool_execute_before, the tool and tool_execute_after in that order, and
\* the history gets the tool results only when every call has returned.
C31_StepOrder ==
    [][/\ (events' # events /\ caller' = "monologue") =>
             \/ /\ pc = "idle"
                /\ EventNames(events') = <<"message_loop_start">>
                /\ Len(history') = Len(history) + 1
                /\ LastRole(history') = "user"
                /\ iteration' = 0
             \/ /\ pc = "loop"
                /\ NewEvents = <<"message_loop_prompts_before", "before_llm_call">>
                /\ history' = history
                /\ full_response' = EmptyText
                /\ pc' = "llm"
             \/ /\ pc = "llm"
                /\ events[Len(events)].name = "before_llm_call"
                /\ NewEvents = <<"after_llm_call">>
                /\ Len(history') > Len(history)
                /\ history'[Len(history) + 1].role = "assistant"
                /\ history'[Len(history) + 1].content.llm = full_response
                /\ pc' = "exec" => tool_calls' = _extract_tools(full_response)
             \/ /\ pc \in {"loop", "fold"}
                /\ NewEvents = <<"monologue_end", "finalize">>
                /\ pc' = "returned"
       /\ (full_response' # full_response /\ pc' = "llm" /\ pc = "llm") =>
             /\ events' = events
             /\ events[Len(events)].name = "before_llm_call"
       /\ (pc = "exec" \/ pc' = "fold") => history' = history
       /\ (pc = "fold" /\ caller = "monologue") =>
             /\ \A k \in 1..Len(slots) : slots[k].pos = "done"
             /\ Len(history') = Len(history) + Len(tool_calls)
       /\ (pc = "exec" /\ pc' = "exec") =>
             \A k \in 1..Len(slots) :
                /\ PosRank(slots'[k].pos) >= PosRank(slots[k].pos)
                /\ slots'[k].hb >= slots'[k].nb
                /\ slots'[k].nb >= slots'[k].ne
                /\ slots'[k].ne >= slots'[k].na
                /\ slots'[k].ha <= slots'[k].hb
                /\ slots'[k].ha > slots[k].ha => slots[k].hb = 1
                /\ slots'[k].hb > slots[k].hb => slots[k].ne = 0 /\ slots[k].ha = 0
                /\ slots'[k].ne > slots[k].ne => slots[k].ha = 0]_vars

\* a batch of two calls has run, hooks around each tool, and the fold has
\* appended both results in the second iteration of the monologue
C31_Witness ==
    /\ caller = "monologue"
    /\ pc = "loop"
    /\ iteration = 2
    /\ Len(results) = 2
    /\ \A k \in 1..Len(slots) : slots[k].hb = 1 /\ slots[k].ne = 1 /\ slots[k].ha = 1
    /\ Len(history) >= 5
    /\ history[Len(history)].content.kind = "tool_result"
    /\ EventNames(events) = <<"message_loop_start",
                              "message_loop_prompts_before", "before_llm_call",
                              "after_llm_call",
                              "message_loop_prompts_before", "before_llm_call",
                              "after_llm_call">>

\* C32: the tool cache is one mapping per context shared by its agents.  A
\* call whose key is in the cache of its context returns that entry with
\* from_cache true, whichever agent of the context inserted it, and runs no
\* tool; a call never reads or writes the cache of another context.
C32_CachePerContext ==
    [][\A c \in ContextIds :
          contexts'.call # contexts.call /\ contexts'.call.context = c =>
             LET call == contexts'.call
                 can_cache == /\ contexts.enabled[c]
                              /\ should_cache(call.tc.name, call.tc.args)
             IN  /\ \A d \in ContextIds \ {c} : contexts'.data[d] = contexts.data[d]
                 /\ call.cached <=> (can_cache /\ call.key \in DOMAIN contexts.data[c])
                 /\ call.cached =>
                       /\ call.response = CachedResponse(contexts.data[c][call.key])
                       /\ contexts'.data = contexts.data
                 /\ (can_cache /\ ~call.cached) =>
                       contexts'.data[c][call.key] = CacheEntry(call.response)
                 /\ ~can_cache => contexts'.data = contexts.data]_vars

\* a subordinate is answered from the entry the root of its context inserted,
\* while the other context, which caches too, holds no entry for the key
C32_Witness ==
    /\ contexts # NoContexts
    /\ contexts.call.cached
    /\ contexts.call.context = 1
    /\ contexts.call.agent = 1
    /\ contexts.writer[1][contexts.call.key] = 0
    /\ contexts.enabled[2]
    /\ contexts.call.key \notin DOMAIN contexts.data[2]
    /\ contexts.data[2] # << >>

\* the calls of the batch under way that share a cache key and have their
\* response, a cached one or the tool's
Responded(key) ==
    {k \in 1..Len(slots) : /\ _tool_cache_key(slots[k].tc) = key
                           /\ slots[k].can_cache
                           /\ slots[k].rank > 0}

LastResponded(key) ==
    CHOOSE k \in Responded(key) : \A j \in Responded(key) : slots[j].rank <= slots[k].rank

\* C33: when calls with one cache key run concurrently, the entry in the
\* cache is at every moment the response of the call that got its response
\* last, and every entry is a whole {message, break_loop} pair taken from one
\* response.
C33_LastWriterWins ==
    \A key \in DOMAIN tool_cache :
        /\ DOMAIN tool_cache[key] = {"message", "break_loop"}
        /\ tool_cache[key] = CacheEntry(last_call[key].response)
        /\ Responded(key) # {} =>
              tool_cache[key] = CacheEntry(slots[LastResponded(key)].response)

\* two calls with one key of a parallel batch both ran the tool, with
\* different outcomes, and the cache holds the outcome of the later one
C33_Witness ==
    /\ mode = "parallel"
    /\ Len(slots) = 2
    /\ _tool_cache_key(slots[1].tc) = _tool_cache_key(slots[2].tc)
    /\ slots[1].ne = 1 /\ slots[2].ne = 1
    /\ slots[1].rank = 2 /\ slots[2].rank = 1
    /\ slots[1].response # slots[2].response
    /\ _tool_cache_key(slots[1].tc) \in DOMAIN tool_cache
    /\ tool_cache[_tool_cache_key(slots[1].tc)] = CacheEntry(slots[1].response)

\* the sessions a call of the store removed, and the updated_at a session had
\* when the call pruned
Removed == (DOMAIN db.sessions \cup {db'.last.session_id}) \ DOMAIN db'.sessions

UpdatedAtPrune(id) ==
    IF id = db'.last.session_id THEN db'.last.timestamp ELSE db.sessions[id].updated_at

\* C34: after every ensure_session, save_message or save_tool_call that
\* returns on a store with max_sessions > 0, the store holds at most
\* max_sessions sessions; the sessions removed are no newer by updated_at
\* than any session kept, and no row of messages or tool_calls is left for
\* a session that is not in the store.
C34_PruneKeepsNewest ==
    [][(db'.last # db.last \/ db'.sessions # db.sessions) =>
          /\ (db.max_sessions > 0 /\ ~db'.last.raised) =>
                Cardinality(DOMAIN db'.sessions) <= db.max_sessions
          /\ db.max_sessions <= 0 => DOMAIN db.sessions \subseteq DOMAIN db'.sessions
          /\ ~db'.last.raised =>
                /\ \A r \in Removed, k \in DOMAIN db'.sessions :
                      UpdatedAtPrune(r) <= db'.sessions[k].updated_at
                /\ Cardinality(DOMAIN db'.sessions) =
                      IF db.max_sessions <= 0 
                      THEN Cardinality(DOMAIN db.sessions \cup {db'.last.session_id})
                      ELSE IF Cardinality(DOMAIN db.sessions \cup {db'.last.session_id}) 
                                > db.max_sessions
                      THEN db.max_sessions
                      ELSE Cardinality(DOMAIN db.sessions \cup {db'.last.session_id})
          /\ db'.last.raised => db'.sessions = db.sessions
          /\ \A id \in SessionIds \ DOMAIN db'.sessions :
                db'.messages[id] = 0 /\ db'.tool_calls[id] = 0]_vars

\* a store limited to one session that held three: two were pruned at once,
\* a session with a message among them, and the one kept is the newest
C34_Witness ==
    /\ db.max_sessions = 1
    /\ db.last.op = "save_message"
    /\ ~db.last.raised
    /\ DOMAIN db.sessions = {"s3"}
    /\ db.last.session_id = "s1"
    /\ db.messages["s1"] = 0

\* the bracketed text of a timeout or of a tool exception
FailureText(message) == message.kind \in {"timed_out", "tool_error"}

\* slot k gets the response of its own run of the tool in this step
Responds(k) ==
    /\ k \in 1..Len(slots)
    /\ rounds' = rounds
    /\ slots[k].rank = 0
    /\ slots'[k].rank > 0
    /\ ~slots'[k].cached

\* C35: a cacheable call that ends in a timeout or a tool exception stores
\* its error response in the cache, and a call that finds such an entry under
\* its key returns that text with from_cache true and runs nothing of the tool.
C35_FailuresAreCached ==
    [][\A k \in 1..Len(slots) :
          /\ (Responds(k) /\ CanCache(k) /\ FailureText(slots'[k].response.message)) =>
                /\ Key(k) \in DOMAIN tool_cache'
                /\ tool_cache'[Key(k)] = CacheEntry(slots'[k].response)
          /\ (/\ Looks(k)
              /\ CanCache(k)
              /\ Key(k) \in DOMAIN tool_cache
              /\ FailureText(tool_cache[Key(k)].message)) =>
                /\ slots'[k].cached
                /\ slots'[k].response.message = tool_cache[Key(k)].message
                /\ ~slots'[k].response.break_loop
                /\ slots'[k].nb = 0 /\ slots'[k].ne = 0 /\ slots'[k].na = 0
                /\ tool_cache' = tool_cache]_vars

\* the second batch asked for the search that had timed out in the first, and
\* got the timeout text from the cache
C35_Witness ==
    /\ rounds = 2
    /\ pc \in {"fold", "direct_returned"}
    /\ Len(results) = 1
    /\ results[1].cached
    /\ results[1].response.message.kind = "timed_out"
    /\ slots[1].ne = 0
    /\ last_call[Key(1)].cached

\* Tool.should_cache of the call's tool: a memory call is cached when it
\* reads, any other call when its tool is cacheable
CacheableCall(tc) ==
    IF tc.name = "memory"
    THEN MemoryAction(tc.args) \in {"search", "query", "recall"}
    ELSE tc.name \notin {"task_done", "parallel_gate"}

\* C36: an entry of the cache stays for the rest of the session.  No step
\* removes a key; an entry is written only by a call with that very key that
\* ran with caching on and should_cache true, and only such calls are served
\* from the cache; a call that finds its key is served the stored message,
\* whatever ran in between.
C36_EntriesStay ==
    [][/\ DOMAIN tool_cache \subseteq DOMAIN tool_cache'
       /\ \A key \in DOMAIN tool_cache' :
             (key \notin DOMAIN tool_cache \/ tool_cache'[key] # tool_cache[key]) =>
                \E k \in 1..Len(slots) :
                   /\ Responds(k)
                   /\ Key(k) = key
                   /\ config.cache_enabled
                   /\ CacheableCall(slots[k].tc)
                   /\ tool_cache'[key] = CacheEntry(slots'[k].response)
       /\ \A k \in 1..Len(slots) :
             /\ (rounds' = rounds /\ slots'[k].cached) =>
                   config.cache_enabled /\ CacheableCall(slots[k].tc)
             /\ (/\ Looks(k)
                 /\ config.cache_enabled
                 /\ CacheableCall(slots[k].tc)
                 /\ Key(k) \in DOMAIN tool_cache) =>
                   /\ slots'[k].cached
                   /\ slots'[k].response = CachedResponse(tool_cache[Key(k)])]_vars

\* a memory search was cached in the first batch; the second batch saved to
\* memory, which is not cached, and then got the search from the cache
C36_Witness ==
    /\ rounds = 2
    /\ pc \in {"fold", "direct_returned"}
    /\ Len(results) = 2
    /\ results[1].response.message.kind = "saved"
    /\ ~results[1].cached
    /\ slots[1].ne = 1
    /\ Key(1) \notin DOMAIN tool_cache
    /\ results[2].cached
    /\ results[2].response.message.kind = "memories"
    /\ slots[2].ne = 0

\* the number of events of one name dispatched by the monologue
Dispatched(name) == Cardinality({i \in 1..Len(events) : events[i].name = name})

\* C37: a monologue dispatches monologue_end and finalizes telemetry at most
\* once.  When it has returned a break_loop result or the fallback of the
\* iteration cap, each has happened exactly once, the hook first and the
\* finalize second, as the last two things before the return; when it has
\* returned an LLM error, and as long as it runs, neither has happened.
C37_EndOnce ==
    /\ Dispatched("monologue_end") <= 1
    /\ Dispatched("finalize") <= 1
    /\ (caller = "monologue" /\ pc # "returned") =>
          Dispatched("monologue_end") = 0 /\ Dispatched("finalize") = 0
    /\ (pc = "returned" /\ ret.kind \in LLMErrorKinds) =>
          Dispatched("monologue_end") = 0 /\ Dispatched("finalize") = 0
    /\ (pc = "returned" /\ ret.kind \notin LLMErrorKinds) =>
          /\ Dispatched("monologue_end") = 1
          /\ Dispatched("finalize") = 1
          /\ events[Len(events) - 1] = Event("monologue_end", ret)
          /\ events[Len(events)].name = "finalize"
          /\ ret = FallbackMsg <=> events[Len(events)].arg.text = "max_iterations"

\* a monologue that ran a tool in its first iteration and ended with the
\* response tool in its second
C37_Witness ==
    /\ pc = "returned"
    /\ iteration = 2
    /\ rounds = 2
    /\ ret.kind = "text"
    /\ Dispatched("monologue_end") = 1
    /\ Dispatched("finalize") = 1
    /\ events[Len(events)].arg.text = "response"

\* C38: for one web session at most one monologue runs at any time, and a
\* request that finds the session's monologue running is answered with 409
\* and starts no thread, for every interleaving of concurrent requests.
C38_OneMonologuePerSession ==
    /\ Cardinality(web.threads) <= 1
    /\ web.threads # {} => web.is_running

\* C39: one call of chat sends at most max_retries requests, the consumer
\* receives chunks of one request only, and a call that ended on HTTP 404
\* sent its last request without a retry after it.
C39_BoundedAttempts ==
    /\ client.posts <= client.max_retries
    /\ Cardinality(client.yielded) <= 1
    /\ client.pc = "model_error" => client.posts = client.attempt + 1

====
